---- MODULE Spec2Model ----
(***************************************************************************)
(* Verification model of the continuation-lowering and stack-management    *)
(* subsystem:                                                              *)
(*   - LowerGpuRt (lgc/patch/LowerGpuRt.cpp): the traversal-stack lowering *)
(*   - forwardContinuationFrameStoreToLoad and replaceAllPointerUses       *)
(*     (continuations utilities).                                          *)
(* Each component has its own specification over the shared variables.     *)
(***************************************************************************)
EXTENDS Integers, Sequences, FiniteSets, TLC

VARIABLES
    \* ---- LowerGpuRt: pipeline state and module under transformation
    isGraphics,      \* m_pipelineState->isGraphics()
    gfxMajor,        \* getTargetInfo().getGfxIpVersion().major
    wgDims,          \* ComputeShaderMode workgroupSizeX/Y/Z
    calls,           \* the dialect op calls of the module, in visiting order
    rtPc,            \* position of LowerGpuRt::run
    m_stack,         \* the LdsStack global: [created, len]
    m_callsToLower,  \* SmallVector<Instruction *>
    m_funcsToLower,  \* SetVector<Function *>
    lowered,         \* call index -> value that replaced the call's uses
    liveCalls,       \* call instructions still in the module
    liveFuncs,       \* op declarations still in the module
    preserved,       \* what run() returned
    \* ---- forwardContinuationFrameStoreToLoad
    prog,            \* the function under transformation, as given
    fwdPc,           \* position of forwardContinuationFrameStoreToLoad
    OffsetLoadMap,   \* the discovered loads with their offsets, in discovery order
    SortedStores,    \* SmallVector<OffsetStorePair>
    StoreIntervals,  \* the interval tree: records [left, right, value]
    treeBuilt,       \* StoreIntervals.create() has run
    loadQueue,       \* the loads in the order the forwarding loop takes them
    erased,          \* instructions erased from the function
    replacedBy,      \* load -> the store whose value replaced the load's uses
    \* ---- replaceAllPointerUses
    rwProg,          \* the instructions that use the pointer, as given
    rwPc,            \* position of replaceAllPointerUses
    rwType,          \* value -> its type: an address space, "int" or "none"
    rwOps,           \* instruction -> the values it uses now
    rwWorklist,      \* SmallVector<Value *> Worklist
    rwErased,        \* instructions erased from the function
    ToBeRemoved,     \* SmallVectorImpl<Instruction *> &ToBeRemoved
    rwRuns,          \* the calls that have returned
    rwAfterFirst,    \* the function as the first call left it
    \* ---- replaceIntrinsicCall
    icCall,          \* the call, its shader stage and the GPURT library, as given
    icPc,            \* position of replaceIntrinsicCall
    icEmitted,       \* the instructions created so far, in order
    Arguments,       \* SmallVector<Value *> Arguments
    icOrig,          \* the original call: [uses, erased]
    icResult,        \* what replaceIntrinsicCall returned or reported
    \* ---- continuationStackOffsetToPtr
    spModule,        \* the module's stack address space metadata and the inputs
    spPc,            \* position of continuationStackOffsetToPtr
    spEmitted,       \* the instructions created so far, in order
    spResult,        \* the returned pointer: [as, addr]
    \* ---- earlyDriverTransform
    edModule,        \* the module: its metadata and its functions, as given
    edPc,            \* position of earlyDriverTransform
    edNext,          \* index of the function the loop visits next
    edCalls,         \* function index -> what each of its calls was replaced by
    edChanged        \* bool Changed

rtVars == <<isGraphics, gfxMajor, wgDims, calls, rtPc, m_stack, m_callsToLower,
            m_funcsToLower, lowered, liveCalls, liveFuncs, preserved>>

fwdVars == <<prog, fwdPc, OffsetLoadMap, SortedStores, StoreIntervals, treeBuilt,
             loadQueue, erased, replacedBy>>

rwVars == <<rwProg, rwPc, rwType, rwOps, rwWorklist, rwErased, ToBeRemoved, rwRuns,
            rwAfterFirst>>

icVars == <<icCall, icPc, icEmitted, Arguments, icOrig, icResult>>

spVars == <<spModule, spPc, spEmitted, spResult>>

edVars == <<edModule, edPc, edNext, edCalls, edChanged>>

nonRtVars == <<fwdVars, rwVars, icVars, spVars, edVars>>
nonFwdVars == <<rtVars, rwVars, icVars, spVars, edVars>>
nonRwVars == <<rtVars, fwdVars, icVars, spVars, edVars>>
nonIcVars == <<rtVars, fwdVars, rwVars, spVars, edVars>>
nonSpVars == <<rtVars, fwdVars, rwVars, icVars, edVars>>
nonEdVars == <<rtVars, fwdVars, rwVars, icVars, spVars>>

vars == <<rtVars, fwdVars, rwVars, icVars, spVars, edVars>>

-----------------------------------------------------------------------------
(* Bounds of the model *)
MaxWgX == 32
MaxWgY == 4
MaxWgZ == 2
MaxCalls == 2

(* Program constants *)
MaxLdsStackEntries == 16
GfxSwizzleMajor == 11
GraphicsWorkgroupSize == 64
SwizzleLanes == 32
StackAddrShift == 16

GfxMajors == {GfxSwizzleMajor - 1, GfxSwizzleMajor, GfxSwizzleMajor + 1}

-----------------------------------------------------------------------------
(* The components that a specification does not exercise stay idle. *)

NoProg == [ops |-> <<>>, layout |-> "own", useOrder |-> "fwd", hazard |-> "none"]

FwdIdle ==
    /\ prog = NoProg
    /\ fwdPc = "idle"
    /\ OffsetLoadMap = <<>>
    /\ SortedStores = <<>>
    /\ StoreIntervals = {}
    /\ treeBuilt = FALSE
    /\ loadQueue = <<>>
    /\ erased = {}
    /\ replacedBy = <<>>

NoRwProg == [insts |-> <<>>, useOrder |-> "fwd"]

RwIdle ==
    /\ rwProg = NoRwProg
    /\ rwPc = "idle"
    /\ rwType = <<>>
    /\ rwOps = <<>>
    /\ rwWorklist = <<>>
    /\ rwErased = {}
    /\ ToBeRemoved = <<>>
    /\ rwRuns = 0
    /\ rwAfterFirst = <<>>

(* replaceIntrinsicCall is not running *)
NoCall == [callee |-> "none"]

(* What replaceIntrinsicCall returns *)
Returned(what) == [kind |-> what, text |-> "", names |-> <<>>]

IcIdle ==
    /\ icCall = NoCall
    /\ icPc = "idle"
    /\ icEmitted = <<>>
    /\ Arguments = <<>>
    /\ icOrig = [uses |-> "Call", erased |-> FALSE]
    /\ icResult = Returned("none")

(* continuationStackOffsetToPtr is not running *)
NoSpModule == [mode |-> "idle"]

NoPointer == [as |-> "none", addr |-> 0]

SpIdle ==
    /\ spModule = NoSpModule
    /\ spPc = "idle"
    /\ spEmitted = <<>>
    /\ spResult = NoPointer

(* earlyDriverTransform is not running *)
NoEdModule == [md |-> <<>>, funcs |-> <<>>]

EdIdle ==
    /\ edModule = NoEdModule
    /\ edPc = "idle"
    /\ edNext = 0
    /\ edCalls = <<>>
    /\ edChanged = FALSE

UtilitiesIdle == IcIdle /\ SpIdle /\ EdIdle

-----------------------------------------------------------------------------
(* LowerGpuRt *)

StackOps == {"StackWrite", "StackRead", "LdsStackInit"}
QueryOps == {"GetStackSize", "GetStackBase", "GetStackStride", "LdsStackStore",
             "GetBoxSortHeuristicMode", "GetStaticFlags",
             "GetTriangleCompressionMode", "GetFlattenedGroupThreadId"}
OpKinds == StackOps \cup QueryOps

\* The order in which the visitor walks the op declarations.
VisitOrder == <<"GetStackSize", "GetStackBase", "GetStackStride", "StackWrite",
                "StackRead", "LdsStackInit", "LdsStackStore",
                "GetBoxSortHeuristicMode", "GetStaticFlags",
                "GetTriangleCompressionMode", "GetFlattenedGroupThreadId">>

OpCall(op, extra) == [op |-> op, extra |-> extra]

\* llvm::alignTo(value, align)
alignTo(value, align) == ((value + align - 1) \div align) * align

\* Mutant: the workgroup size is never rounded up to the swizzle width.
getWorkgroupSizeUnrounded ==
    IF isGraphics THEN GraphicsWorkgroupSize ELSE wgDims[1] * wgDims[2] * wgDims[3]

\* LowerGpuRt::getWorkgroupSize
getWorkgroupSize ==
    LET workgroupSize == IF isGraphics THEN GraphicsWorkgroupSize
                         ELSE wgDims[1] * wgDims[2] * wgDims[3]
    IN  IF gfxMajor >= GfxSwizzleMajor THEN alignTo(workgroupSize, SwizzleLanes)
        ELSE workgroupSize

\* Mutant: a stack init alone does not ask for the stack.
needGlobalStackNoInit ==
    \E i \in 1..Len(calls) : calls[i].op \in {"StackWrite", "StackRead"}

\* The payload computed by the visitor of createGlobalStack
needGlobalStack == \E i \in 1..Len(calls) : calls[i].op \in StackOps
needExtraStack ==
    \E i \in 1..Len(calls) :
        calls[i].op \in {"StackWrite", "StackRead"} /\ calls[i].extra

\* Mutant: the extra stack does not double the array.
ldsStackSizeNotDoubled == getWorkgroupSize * MaxLdsStackEntries

\* ldsStackSize of createGlobalStack
ldsStackSize ==
    LET size == getWorkgroupSize * MaxLdsStackEntries
    IN  IF needExtraStack THEN size * 2 ELSE size

NoStack == [created |-> FALSE, len |-> 0]

\* LowerGpuRt::createGlobalStack
CreateGlobalStack ==
    /\ rtPc = "start"
    /\ m_stack' = IF needGlobalStack
                  THEN [created |-> TRUE, len |-> ldsStackSize]
                  ELSE NoStack
    /\ rtPc' = "visit"
    /\ UNCHANGED nonRtVars
    /\ UNCHANGED <<isGraphics, gfxMajor, wgDims, calls, m_callsToLower,
                   m_funcsToLower, lowered, liveCalls, liveFuncs, preserved>>

-----------------------------------------------------------------------------
(* Emitted code: a straight-line sequence of instructions.  An operand is a *)
(* reference to the thread id, the stack global, an immediate, an argument  *)
(* of the lowered call or the result of an earlier emitted instruction.     *)

Imm(v) == [t |-> "imm", v |-> v]
Res(n) == [t |-> "ins", v |-> n]
Arg(n) == [t |-> "arg", v |-> n]
StackRef == [t |-> "stack", v |-> 0]
NoOperand == [t |-> "none", v |-> 0]
Ins(op, x, y) == [op |-> op, x |-> x, y |-> y]
\* An intrinsic call with four operands
Ins4(op, x, y, z, w) == [op |-> op, x |-> x, y |-> y, z |-> z, w |-> w]

Pow2(n) == 2 ^ n
\* A 32-bit value is held as the integer in [-2^31, 2^31) that has its bits:
\* the value of its two 16-bit halves, the upper one read as signed.
Signed32(hi, lo) == (IF hi >= Pow2(15) THEN hi - Pow2(16) ELSE hi) * Pow2(16) + lo
\* x modulo 2^32, computed on the two 16-bit halves
Wrap32(x) == Signed32((x \div Pow2(16)) % Pow2(16), x % Pow2(16))
\* Bitwise and with a mask of the form 2^n - 1
AndLowMask(x, mask) == x % (mask + 1)
\* Logical shift right by n >= 1
LShr32(x, n) == (x \div Pow2(n)) % Pow2(32 - n)
\* Shift left by n >= 1: the low 32 - n bits move up, the others are lost
Shl32(x, n) ==
    LET kept == x % Pow2(32 - n)
    IN  (IF kept >= Pow2(31 - n) THEN kept - Pow2(32 - n) ELSE kept) * Pow2(n)

\* LowerGpuRt::getThreadIdInGroup: a read of the built-in input
getThreadIdInGroup ==
    Ins(IF isGraphics THEN "BuiltInSubgroupLocalInvocationId"
        ELSE "BuiltInLocalInvocationIndex", NoOperand, NoOperand)

IsThreadIdRead(ins) ==
    ins.op \in {"BuiltInSubgroupLocalInvocationId", "BuiltInLocalInvocationIndex"}

\* Run-time value of instruction n of the emitted code for the invocation
\* env = [tid, stackAddr, args].  Pointers are byte addresses in local memory.
RECURSIVE EvalIns(_, _, _)
EvalOperand(code, o, env) ==
    CASE o.t = "imm" -> o.v
      [] o.t = "ins" -> EvalIns(code, o.v, env)
      [] o.t = "arg" -> env.args[o.v]
      [] o.t = "stack" -> env.stackAddr
      [] OTHER -> 0
EvalIns(code, n, env) ==
    LET ins == code[n]
        x == EvalOperand(code, ins.x, env)
        y == EvalOperand(code, ins.y, env)
    IN  CASE IsThreadIdRead(ins) -> env.tid
          [] ins.op = "and" -> AndLowMask(x, y)
          [] ins.op = "lshr" -> LShr32(x, y)
          [] ins.op = "mul" -> Wrap32(x * y)
          [] ins.op = "add" -> Wrap32(x + y)
          [] ins.op = "shl" -> Shl32(x, y)
          [] ins.op = "gep" -> x + 4 * y
          [] ins.op = "ptrtoint" -> x
          [] OTHER -> 0

-----------------------------------------------------------------------------
(* The visitor of LowerGpuRt::run *)

Range(s) == {s[i] : i \in 1..Len(s)}

RECURSIVE IndexOf(_, _, _)
IndexOf(s, e, i) == IF s[i] = e THEN i ELSE IndexOf(s, e, i + 1)
DeclRank(op) == IndexOf(VisitOrder, op, 1)

Unvisited == {i \in 1..Len(calls) : i \notin Range(m_callsToLower)}

\* VisitorStrategy::ByFunctionDeclaration: declaration by declaration, and for
\* each declaration its calls in turn.
NextCall ==
    CHOOSE i \in Unvisited :
        \A j \in Unvisited :
            \/ DeclRank(calls[i].op) < DeclRank(calls[j].op)
            \/ DeclRank(calls[i].op) = DeclRank(calls[j].op) /\ i <= j

Visiting(op) ==
    /\ rtPc = "visit"
    /\ Unvisited # {}
    /\ calls[NextCall].op = op

\* The tail shared by all visitors: replaceAllUsesWith(ret),
\* m_callsToLower.push_back(&inst), m_funcsToLower.insert(callee).
LowerCall(code, ret) ==
    /\ lowered' = [lowered EXCEPT ![NextCall] =
                       [done |-> TRUE, code |-> code, ret |-> ret]]
    /\ m_callsToLower' = Append(m_callsToLower, NextCall)
    /\ m_funcsToLower' = m_funcsToLower \cup {calls[NextCall].op}
    /\ UNCHANGED nonRtVars
    /\ UNCHANGED <<isGraphics, gfxMajor, wgDims, calls, rtPc, m_stack,
                   liveCalls, liveFuncs, preserved>>

\* LowerGpuRt::visitGetStackSize
visitGetStackSize ==
    /\ Visiting("GetStackSize")
    /\ LowerCall(<<>>, Imm(MaxLdsStackEntries * getWorkgroupSize))

\* LowerGpuRt::visitGetStackBase
visitGetStackBase ==
    /\ Visiting("GetStackBase")
    /\ LowerCall(<<getThreadIdInGroup>>, Res(1))

\* Mutant: the stride is the number of entries of one stack.
visitGetStackStrideEntries ==
    /\ Visiting("GetStackStride")
    /\ LowerCall(<<>>, Imm(MaxLdsStackEntries))

\* LowerGpuRt::visitGetStackStride
visitGetStackStride ==
    /\ Visiting("GetStackStride")
    /\ LowerCall(<<>>, Imm(getWorkgroupSize))

\* Mutant: the extra stack starts one entry per thread above the index.
StackIndexCodeOneEntry(extra) ==
    IF extra
    THEN <<Ins("add", Arg(1), Imm(getWorkgroupSize))>>
    ELSE <<>>

\* The index computation shared by visitStackRead and visitStackWrite:
\* the emitted code and the operand holding the final index.
StackIndexCode(extra) ==
    IF extra
    THEN <<Ins("add", Arg(1), Imm(getWorkgroupSize * MaxLdsStackEntries))>>
    ELSE <<>>
StackIndexOperand(extra) == IF extra THEN Res(1) ELSE Arg(1)

\* LowerGpuRt::visitStackRead
visitStackRead ==
    /\ Visiting("StackRead")
    /\ LET extra == calls[NextCall].extra
           pre == StackIndexCode(extra)
           n == Len(pre)
       IN  LowerCall(pre \o <<Ins("gep", StackRef, StackIndexOperand(extra)),
                                Ins("load", Res(n + 1), NoOperand)>>,
                     Res(n + 2))

\* LowerGpuRt::visitStackWrite
visitStackWrite ==
    /\ Visiting("StackWrite")
    /\ LET extra == calls[NextCall].extra
           pre == StackIndexCode(extra)
           n == Len(pre)
       IN  LowerCall(pre \o <<Ins("gep", StackRef, StackIndexOperand(extra)),
                                Ins("store", Arg(2), Res(n + 1))>>,
                     Imm(0))

\* Mutant: each group of 32 lanes advances by one stack, not by 32 stacks.
SwizzledBaseCodeNarrowGroup ==
    <<Ins("and", Res(1), Imm(SwizzleLanes - 1)),
      Ins("lshr", Res(1), Imm(5)),
      Ins("mul", Res(3), Imm(MaxLdsStackEntries)),
      Ins("add", Res(2), Res(4))>>

\* The swizzled per-thread base emitted by visitLdsStackInit when the
\* workgroup is larger than 32 lanes; instruction 1 is the thread id.
SwizzledBaseCode ==
    <<Ins("and", Res(1), Imm(SwizzleLanes - 1)),
      Ins("lshr", Res(1), Imm(5)),
      Ins("mul", Res(3), Imm(MaxLdsStackEntries * SwizzleLanes)),
      Ins("add", Res(2), Res(4))>>

\* Mutant: the byte address is shifted as a dword address would be.
PackedAddrCodeDwShift(n) ==
    <<Ins("gep", StackRef, Res(n)),
      Ins("ptrtoint", Res(n + 1), NoOperand),
      Ins("shl", Res(n + 2), Imm(StackAddrShift + 2))>>

\* The packed stack address emitted by visitLdsStackInit from the base held
\* by instruction n: the address of the entry, as an integer, shifted.
PackedAddrCode(n) ==
    <<Ins("gep", StackRef, Res(n)),
      Ins("ptrtoint", Res(n + 1), NoOperand),
      Ins("shl", Res(n + 2), Imm(StackAddrShift))>>

\* LowerGpuRt::visitLdsStackInit
visitLdsStackInit ==
    /\ Visiting("LdsStackInit")
    /\ LET swz == getWorkgroupSize > SwizzleLanes
           pre == <<getThreadIdInGroup>> \o (IF swz THEN SwizzledBaseCode ELSE <<>>)
           n == Len(pre)
       IN  LowerCall(pre \o PackedAddrCode(n), Res(n + 3))

\* llvm::Log2_32 on the powers of two that are stack sizes
Log2_32(v) == CHOOSE k \in 0..31 : Pow2(k) <= v /\ v < Pow2(k + 1)

\* The operands of GpurtLdsStackStoreOp: getNewPos, getOldPos, getData
NewPos == Arg(1)
OldPos == Arg(2)
Data == Arg(3)

\* Mutant: the call is replaced by the updated pointer.
LdsStackStoreRetUpdatedPointer == Res(3)

\* The value that replaces the uses of the call: element 0 of the result
LdsStackStoreRet == Res(5)

\* LowerGpuRt::visitLdsStackStore
visitLdsStackStore ==
    /\ Visiting("LdsStackStore")
    /\ LowerCall(<<Ins("load", NewPos, NoOperand),
                   Ins4("amdgcn_ds_bvh_stack_rtn", Res(1), OldPos, Data,
                        Imm((Log2_32(MaxLdsStackEntries) - 3) * Pow2(12))),
                   Ins("extractvalue", Res(2), Imm(1)),
                   Ins("store", Res(3), NewPos),
                   Ins("extractvalue", Res(2), Imm(0))>>,
                 LdsStackStoreRet)

\* LowerGpuRt::visitGetBoxSortHeuristicMode
visitGetBoxSortHeuristicMode ==
    /\ Visiting("GetBoxSortHeuristicMode")
    /\ LowerCall(<<>>, [t |-> "rtBoxSortHeuristicMode", v |-> 0])

\* LowerGpuRt::visitGetStaticFlags
visitGetStaticFlags ==
    /\ Visiting("GetStaticFlags")
    /\ LowerCall(<<>>, [t |-> "rtStaticPipelineFlags", v |-> 0])

\* LowerGpuRt::visitGetTriangleCompressionMode
visitGetTriangleCompressionMode ==
    /\ Visiting("GetTriangleCompressionMode")
    /\ LowerCall(<<>>, [t |-> "rtTriCompressMode", v |-> 0])

\* LowerGpuRt::visitGetFlattenedGroupThreadId
visitGetFlattenedGroupThreadId ==
    /\ Visiting("GetFlattenedGroupThreadId")
    /\ LowerCall(<<getThreadIdInGroup>>, Res(1))

\* visitor.visit returns once every call has been visited
VisitDone ==
    /\ rtPc = "visit"
    /\ Unvisited = {}
    /\ rtPc' = "eraseCalls"
    /\ UNCHANGED nonRtVars
    /\ UNCHANGED <<isGraphics, gfxMajor, wgDims, calls, m_stack, m_callsToLower,
                   m_funcsToLower, lowered, liveCalls, liveFuncs, preserved>>

\* for (Instruction *call : m_callsToLower) call->eraseFromParent();
EraseCall ==
    /\ rtPc = "eraseCalls"
    /\ \E i \in 1..Len(m_callsToLower) :
          /\ m_callsToLower[i] \in liveCalls
          /\ \A j \in 1..(i - 1) : m_callsToLower[j] \notin liveCalls
          /\ liveCalls' = liveCalls \ {m_callsToLower[i]}
    /\ UNCHANGED nonRtVars
    /\ UNCHANGED <<isGraphics, gfxMajor, wgDims, calls, rtPc, m_stack,
                   m_callsToLower, m_funcsToLower, lowered, liveFuncs, preserved>>

\* Mutant: the loop over the calls ends after its first turn.
EraseCallsDoneAfterFirst ==
    /\ rtPc = "eraseCalls"
    /\ Len(m_callsToLower) > 0 => m_callsToLower[1] \notin liveCalls
    /\ rtPc' = "eraseFuncs"
    /\ UNCHANGED nonRtVars
    /\ UNCHANGED <<isGraphics, gfxMajor, wgDims, calls, m_stack, m_callsToLower,
                   m_funcsToLower, lowered, liveCalls, liveFuncs, preserved>>

EraseCallsDone ==
    /\ rtPc = "eraseCalls"
    /\ Range(m_callsToLower) \cap liveCalls = {}
    /\ rtPc' = "eraseFuncs"
    /\ UNCHANGED nonRtVars
    /\ UNCHANGED <<isGraphics, gfxMajor, wgDims, calls, m_stack, m_callsToLower,
                   m_funcsToLower, lowered, liveCalls, liveFuncs, preserved>>

\* for (Function *func : m_funcsToLower) func->eraseFromParent();
\* (the SetVector iterates in insertion order, which is the visiting order)
EraseFunc ==
    /\ rtPc = "eraseFuncs"
    /\ \E f \in m_funcsToLower \cap liveFuncs :
          /\ \A g \in m_funcsToLower \cap liveFuncs : DeclRank(f) <= DeclRank(g)
          /\ liveFuncs' = liveFuncs \ {f}
    /\ UNCHANGED nonRtVars
    /\ UNCHANGED <<isGraphics, gfxMajor, wgDims, calls, rtPc, m_stack,
                   m_callsToLower, m_funcsToLower, lowered, liveCalls, preserved>>

\* The return of LowerGpuRt::run
RunReturn ==
    /\ rtPc = "eraseFuncs"
    /\ m_funcsToLower \cap liveFuncs = {}
    /\ preserved' = IF Len(m_callsToLower) # 0 THEN "all" ELSE "none"
    /\ rtPc' = "done"
    /\ UNCHANGED nonRtVars
    /\ UNCHANGED <<isGraphics, gfxMajor, wgDims, calls, m_stack, m_callsToLower,
                   m_funcsToLower, lowered, liveCalls, liveFuncs>>

NotLowered == [done |-> FALSE, code |-> <<>>, ret |-> NoOperand]

\* The op calls a module may hold: the extra-stack flag exists on reads and
\* writes only.
CallVariants ==
    {OpCall(op, FALSE) : op \in OpKinds}
        \cup {OpCall(op, TRUE) : op \in {"StackWrite", "StackRead"}}

RECURSIVE SeqsUpTo(_, _)
SeqsUpTo(S, n) ==
    IF n = 0 THEN {<<>>}
    ELSE LET shorter == SeqsUpTo(S, n - 1)
         IN  shorter \cup {Append(s, e) : s \in {q \in shorter : Len(q) = n - 1}, e \in S}

ComputeDims == (1..MaxWgX) \X (1..MaxWgY) \X (1..MaxWgZ)
\* A graphics pipeline carries no compute shader mode.
NoDims == <<0, 0, 0>>

\* The module may declare operations that nothing calls: the members of one
\* of the sets in `unused`.
RtInitDeclared(modules, dims, unused) ==
    /\ FwdIdle
    /\ RwIdle
    /\ UtilitiesIdle
    /\ isGraphics \in BOOLEAN
    /\ gfxMajor \in GfxMajors
    /\ wgDims \in IF isGraphics THEN {NoDims} ELSE dims
    /\ calls \in modules
    /\ rtPc = "start"
    /\ m_stack = NoStack
    /\ m_callsToLower = <<>>
    /\ m_funcsToLower = {}
    /\ lowered = [i \in 1..Len(calls) |-> NotLowered]
    /\ liveCalls = 1..Len(calls)
    /\ liveFuncs \in {{calls[i].op : i \in 1..Len(calls)} \cup D : D \in unused}
    /\ preserved = "unset"

\* The modules in which every declared operation is called
RtInitWith(modules, dims) == RtInitDeclared(modules, dims, {{}})

RtNext ==
    \/ CreateGlobalStack
    \/ visitGetStackSize
    \/ visitGetStackBase
    \/ visitGetStackStride
    \/ visitStackWrite
    \/ visitStackRead
    \/ visitLdsStackInit
    \/ visitLdsStackStore
    \/ visitGetBoxSortHeuristicMode
    \/ visitGetStaticFlags
    \/ visitGetTriangleCompressionMode
    \/ visitGetFlattenedGroupThreadId
    \/ VisitDone
    \/ EraseCall
    \/ EraseCallsDone
    \/ EraseFunc
    \/ RunReturn

\* The part of the visitor that lowers the stack operations
StackNext ==
    \/ CreateGlobalStack
    \/ visitStackWrite
    \/ visitStackRead
    \/ visitLdsStackInit
    \/ VisitDone
    \/ EraseCall
    \/ EraseCallsDone
    \/ EraseFunc
    \/ RunReturn

\* The traversal-stack lowering over every workgroup shape, on modules of
\* stack operations.
StackModules == SeqsUpTo({c \in CallVariants : c.op \in StackOps}, MaxCalls)
SpecStackInit == RtInitWith(StackModules, ComputeDims)
SpecStack == SpecStackInit /\ [][StackNext]_vars

\* The init lowering over every workgroup shape: the modules that hold a
\* stack init, alone or beside a read or a write of either stack.
InitModules ==
    {<<OpCall("LdsStackInit", FALSE)>>,
     <<OpCall("LdsStackInit", FALSE), OpCall("StackWrite", TRUE)>>,
     <<OpCall("StackRead", FALSE), OpCall("LdsStackInit", FALSE)>>}
SpecInitInit == RtInitWith(InitModules, ComputeDims)
SpecInit == SpecInitInit /\ [][StackNext]_vars

\* The init lowering on the workgroups of full height and depth, which have
\* up to MaxWgX * MaxWgY * MaxWgZ threads.
PackDims == {<<x, MaxWgY, MaxWgZ>> : x \in 1..MaxWgX}
SpecPackInit == RtInitWith(InitModules, PackDims)
SpecPack == SpecPackInit /\ [][StackNext]_vars

\* LowerGpuRt::run over every module of op calls, on two workgroup shapes:
\* one group of 32 lanes, and one lane more.
RunModules == SeqsUpTo(CallVariants, MaxCalls)
RunDims == {<<SwizzleLanes, 1, 1>>, <<SwizzleLanes + 1, 1, 1>>}
SpecRunInit == RtInitWith(RunModules, RunDims)
SpecRun == SpecRunInit /\ [][RtNext]_vars

\* LowerGpuRt::run over the same modules, which may also declare one
\* operation without calling it.
UnusedDecls == {{}, {"GetStackSize"}, {"LdsStackStore"}}
SpecDeclInit == RtInitDeclared(RunModules, RunDims, UnusedDecls)
SpecDecl == SpecDeclInit /\ [][RtNext]_vars

\* The three stack queries of one module, alone and beside a write to the
\* stack or to the extra stack, over the workgroups of one row and those of full height and
\* depth.
QueryModules ==
    {<<OpCall("GetStackSize", FALSE), OpCall("GetStackBase", FALSE),
       OpCall("GetStackStride", FALSE)>>,
     <<OpCall("StackWrite", TRUE), OpCall("GetStackStride", FALSE),
       OpCall("GetStackSize", FALSE), OpCall("GetStackBase", FALSE)>>,
     <<OpCall("GetStackBase", FALSE), OpCall("StackWrite", FALSE),
       OpCall("GetStackSize", FALSE), OpCall("GetStackStride", FALSE)>>}
QueryDims == {<<x, 1, 1>> : x \in 1..MaxWgX} \cup PackDims
QueryNext ==
    \/ CreateGlobalStack
    \/ visitGetStackSize
    \/ visitGetStackBase
    \/ visitGetStackStride
    \/ visitStackWrite
    \/ VisitDone
    \/ EraseCall
    \/ EraseCallsDone
    \/ EraseFunc
    \/ RunReturn
SpecQueryInit == RtInitWith(QueryModules, QueryDims)
SpecQuery == SpecQueryInit /\ [][QueryNext]_vars

-----------------------------------------------------------------------------
(* Properties of the traversal-stack lowering *)

\* The workgroup size before any rounding
RawWorkgroupSize ==
    IF isGraphics THEN 64 ELSE wgDims[1] * wgDims[2] * wgDims[3]
\* The least multiple of 32 that is not below w
NextMultipleOf32(w) == CHOOSE r \in w..(w + 31) : r % 32 = 0
RoundedWorkgroupSize ==
    IF gfxMajor >= 11 THEN NextMultipleOf32(RawWorkgroupSize) ELSE RawWorkgroupSize

InitCalls == {i \in 1..Len(calls) : calls[i].op = "LdsStackInit" /\ lowered[i].done}

ThreadEnv(t) == [tid |-> t, stackAddr |-> 0, args |-> <<>>]

\* The per-thread base offset of the init lowering of call i for thread t:
\* the index operand of the address computation on the stack array.
BaseOffset(i, t) ==
    LET code == lowered[i].code
        gep == code[Len(code) - 2]
    IN  EvalOperand(code, gep.y, ThreadEnv(t))

\* The per-thread base offsets of the threads 0..W-1
BaseOffsets(i, W) == [t \in 0..(W - 1) |-> BaseOffset(i, t)]

\* C2: on hardware at or above the threshold generation the stack entries of
\* any two distinct threads of the (rounded) workgroup are different words, and
\* every entry lies below the length of the allocated stack array.  The 16
\* entries of thread t are the words base(t) + 32 * k, k in 0..15.
ThreadsOwnDisjointEntries ==
    (rtPc = "done" /\ gfxMajor >= 11) =>
        \A i \in InitCalls :
            LET W == RoundedWorkgroupSize
                base == BaseOffsets(i, W)
                all == {base[t] + 32 * k : t \in 0..(W - 1), k \in 0..15}
            IN  /\ m_stack.created
                /\ Cardinality(all) = 16 * W
                /\ \A a \in all : 0 <= a /\ a < m_stack.len

\* C2 witness: three groups of 32 lanes (68 threads rounded up to 96); the
\* last entry of the last thread is the last word of the array.
ThreadsOwnDisjointEntriesWitness ==
    /\ rtPc = "done" /\ gfxMajor = 11 /\ wgDims = <<17, 2, 2>>
    /\ \E i \in InitCalls :
          /\ BaseOffset(i, 95) + 32 * 15 = m_stack.len - 1
          /\ BaseOffset(i, 64) = 1024

\* C3: the length of the created stack array is 16 * W' * m.
StackCapacity ==
    m_stack.created =>
        m_stack.len = 16 * RoundedWorkgroupSize
                         * (IF \E i \in 1..Len(calls) :
                                   calls[i].op \in {"StackRead", "StackWrite"}
                                   /\ calls[i].extra
                            THEN 2 ELSE 1)

\* C3 witness: a compute workgroup of 33 threads rounded up to 64, doubled by
\* an extra-stack write.
StackCapacityWitness ==
    /\ m_stack.created /\ gfxMajor = 11 /\ wgDims = <<11, 3, 1>>
    /\ m_stack.len = 2048
    /\ calls = <<OpCall("StackWrite", TRUE)>>

\* C4: for W > 32 the base offset is (t mod 32) + (t div 32) * (16 * 32),
\* injective over [0, W) with values in [0, 16 * W); for W <= 32 it is t.
BaseOffsetInjective ==
    rtPc = "done" =>
        \A i \in InitCalls :
            \A W \in {RawWorkgroupSize, RoundedWorkgroupSize} :
                LET base == BaseOffsets(i, W)
                IN  IF W > 32
                    THEN /\ \A t \in 0..(W - 1) :
                               /\ base[t] = (t % 32) + (t \div 32) * (16 * 32)
                               /\ 0 <= base[t] /\ base[t] < 16 * W
                         /\ Cardinality({base[t] : t \in 0..(W - 1)}) = W
                    ELSE \A t \in 0..(W - 1) : base[t] = t

\* C4 witness: 33 threads on hardware that does not round; thread 32 opens
\* the second group at offset 512 < 16 * 33.
BaseOffsetInjectiveWitness ==
    /\ rtPc = "done" /\ gfxMajor = 10 /\ wgDims = <<11, 3, 1>>
    /\ \E i \in InitCalls : BaseOffset(i, 32) = 512 /\ BaseOffset(i, 31) = 31

-----------------------------------------------------------------------------
(* forwardContinuationFrameStoreToLoad: the function under transformation *)

(* Bounds of the model *)
NumOffsets == 3
MaxPathLen == 5

\* The offsets in use are the first and the last bytes of consecutive 4-byte
\* words of the frame: 0, 3, 4, 7, ...
OffsetAt(k) == 4 * ((k - 1) \div 2) + 3 * ((k - 1) % 2)
Offsets == {OffsetAt(k) : k \in 1..NumOffsets}
OffsetIdx(off) == CHOOSE k \in 1..NumOffsets : OffsetAt(k) = off
Types == {"i32", "f32", "i64"}

\* DataLayout::getTypeStoreSize
getTypeStoreSize(ty) == IF ty = "i64" THEN 8 ELSE 4

\* The control-flow graph: block 1 is the entry, block 2 is skipped by the
\* edge 1 -> 3 and re-entered by the back edge 3 -> 2.
Blocks == {1, 2, 3}
Entry == 1
Edges == {<<1, 2>>, <<1, 3>>, <<2, 3>>, <<3, 2>>}

\* An instruction position is <<block, slot in the block>>.
StorePositions == {<<1, 1>>, <<2, 1>>, <<3, 1>>, <<3, 3>>}
LoadPositions == {<<3, 2>>}

FramePtr == 0
HazardNode == -1

MemOp(kind, off, ty, pos) == [kind |-> kind, off |-> off, ty |-> ty, pos |-> pos]
StoreOps == {MemOp("store", o, t, p) : o \in Offsets, t \in Types, p \in StorePositions}
LoadOps == {MemOp("load", o, t, p) : o \in Offsets, t \in Types, p \in LoadPositions}

NumOps(P) == Len(P.ops)
OpIds(P) == 1..NumOps(P)
LoadIds(P) == {i \in OpIds(P) : P.ops[i].kind = "load"}
StoreIds(P) == {i \in OpIds(P) : P.ops[i].kind = "store"}

\* The pointer operand of memory access i.  Layout "own": an access at a
\* non-zero offset has a GEP of its own on the frame pointer, an access at
\* offset 0 uses the frame pointer itself.  Layout "chain": the accesses at an
\* offset share one pointer; offset 0 is a bitcast of the frame pointer and
\* each further offset a GEP on the pointer of the previous one.
AddrNodeOf(P, i) ==
    IF P.layout = "own"
    THEN IF P.ops[i].off = 0 THEN FramePtr ELSE NumOps(P) + i
    ELSE NumOps(P) + OffsetIdx(P.ops[i].off)

AddrNodes(P) ==
    IF P.layout = "own"
    THEN {NumOps(P) + i : i \in {j \in OpIds(P) : P.ops[j].off # 0}}
    ELSE {n \in (NumOps(P) + 1)..(NumOps(P) + NumOffsets) :
            \E i \in OpIds(P) : n <= AddrNodeOf(P, i)}

NodeIds(P) ==
    OpIds(P) \cup AddrNodes(P) \cup (IF P.hazard = "none" THEN {} ELSE {HazardNode})

Inst(kind, ptr, off, ty, pos, simple) ==
    [kind |-> kind, ptr |-> ptr, off |-> off, ty |-> ty, pos |-> pos,
     simple |-> simple, const |-> TRUE, storesPtr |-> FALSE]

\* The hazard, when there is one, is one more user of the pointer of access 1.
HazardInst(P) ==
    LET ptr == AddrNodeOf(P, 1)
        base == Inst("call", ptr, 0, "i32", <<3, 2>>, TRUE)
    IN  CASE P.hazard = "gepdyn" -> [base EXCEPT !.kind = "gep", !.const = FALSE]
          [] P.hazard = "volatileLoad" -> [base EXCEPT !.kind = "load", !.simple = FALSE]
          [] P.hazard = "atomicStore" -> [base EXCEPT !.kind = "store", !.simple = FALSE]
          [] P.hazard = "storePtr" -> [base EXCEPT !.kind = "store", !.storesPtr = TRUE]
          [] P.hazard = "select" -> [base EXCEPT !.kind = "select"]
          [] OTHER -> base

Node(P, n) ==
    IF n = HazardNode THEN HazardInst(P)
    ELSE IF n \in OpIds(P)
    THEN Inst(P.ops[n].kind, AddrNodeOf(P, n), 0, P.ops[n].ty, P.ops[n].pos, TRUE)
    ELSE IF P.layout = "own"
    THEN Inst("gep", FramePtr, P.ops[n - NumOps(P)].off, "ptr", <<1, 0>>, TRUE)
    ELSE IF n = NumOps(P) + 1
    THEN Inst("bitcast", FramePtr, 0, "ptr", <<1, 0>>, TRUE)
    ELSE Inst("gep", n - 1, OffsetAt(n - NumOps(P)) - OffsetAt(n - NumOps(P) - 1),
              "ptr", <<1, 0>>, TRUE)

\* Value::users(): the instructions using n as their pointer (a store of the
\* pointer uses it as its value operand)
Users(P, n) == {m \in NodeIds(P) : Node(P, m).ptr = n}

RECURSIVE SortedSeq(_, _)
\* The elements of a set of integers in ascending (up) or descending order
SortedSeq(S, up) ==
    IF S = {} THEN <<>>
    ELSE LET m == CHOOSE x \in S : \A y \in S : IF up THEN x <= y ELSE x >= y
         IN  <<m>> \o SortedSeq(S \ {m}, up)

\* Value::uses() in use-list order
UseList(P, n) == SortedSeq(Users(P, n), P.useOrder = "fwd")

-----------------------------------------------------------------------------
(* forwardContinuationFrameStoreToLoad: the collection walk *)

PointerUse(U, O) == [user |-> U, Offset |-> O]
OffsetStorePair(Offset, Store) == [Offset |-> Offset, Store |-> Store]
Interval(l, r, v) == [left |-> l, right |-> r, value |-> v]

\* for (auto &UU : V->uses()) Worklist.push_back(PointerUse(&UU, offset))
PushUses(P, n, offset) ==
    LET us == UseList(P, n)
    IN  [i \in 1..Len(us) |-> PointerUse(us[i], offset)]

Collected(loads, stores, intervals) ==
    [aborted |-> FALSE, loads |-> loads, stores |-> stores, intervals |-> intervals]
GaveUp == [aborted |-> TRUE, loads |-> <<>>, stores |-> <<>>, intervals |-> {}]

\* Mutant: a store is recorded one byte short.
StoreIntervalShort(offset, bytes, store) == Interval(offset, offset + bytes - 2, store)

\* StoreIntervals.insert(PtrUse.Offset, PtrUse.Offset + StoredBytes - 1, Store)
StoreInterval(offset, bytes, store) == Interval(offset, offset + bytes - 1, store)

\* Mutant: a GEP's own offset is not added to the offset of its base.
GepOffsetNotAccumulated(gepOffset, baseOffset) == gepOffset

\* Offset.getSExtValue() + PtrUse.Offset
GepOffset(gepOffset, baseOffset) == gepOffset + baseOffset

\* Mutant: a non-simple access is recorded like a simple one.
IsSimpleAlways(U) == TRUE

\* LoadInst::isSimple / StoreInst::isSimple
IsSimple(U) == U.simple

RECURSIVE CollectUses(_, _, _)
\* The while (!Worklist.empty()) loop
CollectUses(P, Worklist, acc) ==
    IF Worklist = <<>> THEN acc
    ELSE
        LET PtrUse == Worklist[Len(Worklist)]
            rest == SubSeq(Worklist, 1, Len(Worklist) - 1)
            U == Node(P, PtrUse.user)
        IN  CASE U.kind = "gep" ->
                   IF ~U.const THEN GaveUp
                   ELSE CollectUses(P,
                            rest \o PushUses(P, PtrUse.user, GepOffset(U.off, PtrUse.Offset)),
                            acc)
              [] U.kind = "load" ->
                   IF ~IsSimple(U) THEN GaveUp
                   ELSE CollectUses(P, rest,
                            [acc EXCEPT !.loads =
                                Append(@, [Offset |-> PtrUse.Offset, Load |-> PtrUse.user])])
              [] U.kind = "store" ->
                   IF ~IsSimple(U) \/ U.storesPtr THEN GaveUp
                   ELSE CollectUses(P, rest,
                            [acc EXCEPT
                                !.stores = Append(@, OffsetStorePair(PtrUse.Offset, PtrUse.user)),
                                !.intervals = @ \cup
                                    {StoreInterval(PtrUse.Offset, getTypeStoreSize(U.ty),
                                                   PtrUse.user)}])
              [] U.kind \in {"bitcast", "addrspacecast"} ->
                   CollectUses(P, rest \o PushUses(P, PtrUse.user, PtrUse.Offset), acc)
              [] OTHER -> GaveUp

\* Lines 302-359: the worklist starts with the uses of the frame pointer; the
\* walk either gives up (the function returns) or leaves the loads and stores.
FwdCollect ==
    /\ fwdPc = "start"
    /\ LET r == CollectUses(prog, PushUses(prog, FramePtr, 0), Collected(<<>>, <<>>, {}))
       IN  /\ fwdPc' = IF r.aborted THEN "done" ELSE "build"
           /\ OffsetLoadMap' = r.loads
           /\ SortedStores' = r.stores
           /\ StoreIntervals' = r.intervals
    /\ UNCHANGED <<prog, treeBuilt, loadQueue, erased, replacedBy>>
    /\ UNCHANGED nonFwdVars

-----------------------------------------------------------------------------
(* forwardContinuationFrameStoreToLoad: the index and the forwarding loop *)

\* The injective maps of 1..n onto 1..n
IndexPermutations(n) ==
    {f \in [1..n -> 1..n] : \A i, j \in 1..n : f[i] = f[j] => i = j}

\* Mutant: the sort keeps one store of every offset.
SortOutcomesOnePerOffset(stores) ==
    LET kept == {i \in 1..Len(stores) :
                    \A j \in 1..(i - 1) : stores[j].Offset # stores[i].Offset}
        order == SortedSeq({stores[i].Offset : i \in kept}, TRUE)
    IN  {[k \in 1..Len(order) |->
            stores[CHOOSE i \in kept : stores[i].Offset = order[k]]]}

\* llvm::sort by Offset: the order among equal offsets is unspecified
SortOutcomes(stores) ==
    {q \in {[i \in 1..Len(stores) |-> stores[f[i]]] : f \in IndexPermutations(Len(stores))} :
        \A i \in 1..(Len(q) - 1) : q[i].Offset <= q[i + 1].Offset}

\* The keys of OffsetLoadMap
LoadOffsets == {OffsetLoadMap[i].Offset : i \in 1..Len(OffsetLoadMap)}

\* The loads recorded at one offset, in the order they were pushed
LoadsAt(offset) == SelectSeq(OffsetLoadMap, LAMBDA e : e.Offset = offset)

RECURSIVE QueueInOrder(_)
QueueInOrder(offsetSeq) ==
    IF offsetSeq = <<>> THEN <<>>
    ELSE LoadsAt(Head(offsetSeq)) \o QueueInOrder(Tail(offsetSeq))

\* for (const auto &[Offset, Loads] : OffsetLoadMap): a DenseMap iterates
\* its keys in an order of its own
IterationOrders ==
    LET keys == SortedSeq(LoadOffsets, TRUE)
    IN  {QueueInOrder([i \in 1..Len(keys) |-> keys[f[i]]]) : f \in IndexPermutations(Len(keys))}

\* Lines 361-369: StoreIntervals.create(), the sort, and the early return
FwdBuild ==
    /\ fwdPc = "build"
    /\ treeBuilt' = TRUE
    /\ SortedStores' \in SortOutcomes(SortedStores)
    /\ IF StoreIntervals = {}
       THEN fwdPc' = "done" /\ loadQueue' = <<>>
       ELSE fwdPc' = "forward" /\ loadQueue' \in IterationOrders
    /\ UNCHANGED <<prog, OffsetLoadMap, StoreIntervals, erased, replacedBy>>
    /\ UNCHANGED nonFwdVars

\* Mutant: an interval is found by its first byte only.
getContainingFromLeft(point) == {iv \in StoreIntervals : iv.left <= point}

\* IntervalTree::getContaining
getContaining(point) == {iv \in StoreIntervals : iv.left <= point /\ point <= iv.right}

\* Mutant: llvm::lower_bound, the first element whose offset is not smaller.
lower_bound(Offset) ==
    LET after == {i \in 1..Len(SortedStores) : Offset <= SortedStores[i].Offset}
    IN  IF after = {} THEN Len(SortedStores) + 1
        ELSE CHOOSE i \in after : \A j \in after : i <= j

\* llvm::upper_bound(SortedStores, Offset, V < Elem.Offset): the index of the
\* first element whose offset is greater, Len + 1 for end()
upper_bound(Offset) ==
    LET after == {i \in 1..Len(SortedStores) : Offset < SortedStores[i].Offset}
    IN  IF after = {} THEN Len(SortedStores) + 1
        ELSE CHOOSE i \in after : \A j \in after : i <= j

\* Mutant: no store is ever found inside the covered range.
HasConflictNever(Offset, StoreInfo) == FALSE

\* MaybeConflict != SortedStores.end() && MaybeConflict->Offset < StoreInfo.right()
HasConflict(Offset, StoreInfo) ==
    LET MaybeConflict == upper_bound(Offset)
    IN  /\ MaybeConflict <= Len(SortedStores)
        /\ SortedStores[MaybeConflict].Offset < StoreInfo.right

RECURSIVE ReachableAvoiding(_, _)
\* The blocks reachable from the blocks of `seen` on paths that avoid `cut`
ReachableAvoiding(seen, cut) ==
    LET next == {b \in Blocks \ ({cut} \cup seen) : \E a \in seen : <<a, b>> \in Edges}
    IN  IF next = {} THEN seen ELSE ReachableAvoiding(seen \cup next, cut)

\* DominatorTree on blocks: every path from the entry to b goes through a
BlockDominates(a, b) ==
    \/ a = b
    \/ a = Entry
    \/ b \notin ReachableAvoiding({Entry}, a)

\* Instruction a comes before instruction b in their common block
ComesBefore(P, a, b) ==
    \/ Node(P, a).pos[2] < Node(P, b).pos[2]
    \/ Node(P, a).pos[2] = Node(P, b).pos[2] /\ a < b

\* Mutant: only the blocks are compared.
DTdominatesBlockOnly(P, Store, Load) ==
    BlockDominates(Node(P, Store).pos[1], Node(P, Load).pos[1])

\* DT.dominates(Store, Load)
DTdominates(P, Store, Load) ==
    IF Node(P, Store).pos[1] = Node(P, Load).pos[1]
    THEN ComesBefore(P, Store, Load)
    ELSE BlockDominates(Node(P, Store).pos[1], Node(P, Load).pos[1])

\* Mutant: the types need only have the same size.
SameTypeBySize(loadTy, storedTy) == getTypeStoreSize(loadTy) = getTypeStoreSize(storedTy)

\* Load->getType() != StoredTy
SameType(loadTy, storedTy) == loadTy = storedTy

\* Mutant: the covering store may start before the load.
StartsAtAnywhere(Offset, StoreInfo) == TRUE

\* Offset != StoreInfo.left()
StartsAt(Offset, StoreInfo) == Offset = StoreInfo.left

\* Mutant: the store found at the last byte is not compared with the one found
\* at the first byte.
CoversRightLoose(IntersectionsRight, StoreInfo) == Cardinality(IntersectionsRight) = 1

\* IntersectionsRight.size() == 1 && IntersectionsRight.front()->value() == StoreInfo.value()
CoversRight(IntersectionsRight, StoreInfo) ==
    /\ Cardinality(IntersectionsRight) = 1
    /\ (CHOOSE iv \in IntersectionsRight : TRUE).value = StoreInfo.value

\* Mutant: the store found at the first byte of the load is taken to write all
\* of it; the last byte and the types are not looked at.
LoadOutcomeFirstByteOnly(Offset, Load) ==
    LET IntersectionsLeft == getContaining(Offset)
        StoreInfo == CHOOSE iv \in IntersectionsLeft : TRUE
    IN  IF Cardinality(IntersectionsLeft) # 1 THEN "skip"
        ELSE IF ~StartsAt(Offset, StoreInfo) THEN "skip"
        ELSE IF HasConflict(Offset, StoreInfo) THEN "skip"
        ELSE IF ~DTdominates(prog, StoreInfo.value, Load) THEN "skip"
        ELSE "forward"

\* One pass through the body of the loops at lines 371-427 for one load:
\* "skip" (a continue), "assert" (the assertion at line 389 fails), or the
\* store whose value replaces the load.
LoadOutcome(Offset, Load) ==
    LET IntersectionsLeft == getContaining(Offset)
        StoreInfo == CHOOSE iv \in IntersectionsLeft : TRUE
        LoadBytes == getTypeStoreSize(Node(prog, Load).ty)
        IntersectionsRight == getContaining(Offset + LoadBytes - 1)
        Store == StoreInfo.value
    IN  IF Cardinality(IntersectionsLeft) # 1 THEN "skip"
        ELSE IF ~StartsAt(Offset, StoreInfo) THEN "skip"
        ELSE IF IntersectionsRight = {} THEN "assert"
        ELSE IF ~CoversRight(IntersectionsRight, StoreInfo) THEN "skip"
        ELSE IF HasConflict(Offset, StoreInfo) THEN "skip"
        ELSE IF ~SameType(Node(prog, Load).ty, Node(prog, Store).ty) THEN "skip"
        ELSE IF ~DTdominates(prog, Store, Load) THEN "skip"
        ELSE "forward"

\* The store LoadOutcome forwards from
ForwardedStore(Offset) == (CHOOSE iv \in getContaining(Offset) : TRUE).value

\* A continue: the load stays
FwdSkipLoad ==
    /\ fwdPc = "forward"
    /\ loadQueue # <<>>
    /\ LoadOutcome(Head(loadQueue).Offset, Head(loadQueue).Load) = "skip"
    /\ loadQueue' = Tail(loadQueue)
    /\ UNCHANGED <<prog, fwdPc, OffsetLoadMap, SortedStores, StoreIntervals, treeBuilt,
                   erased, replacedBy>>
    /\ UNCHANGED nonFwdVars

\* assert(!IntersectionsRight.empty()) fails in a build with assertions
FwdAssertFails ==
    /\ fwdPc = "forward"
    /\ loadQueue # <<>>
    /\ LoadOutcome(Head(loadQueue).Offset, Head(loadQueue).Load) = "assert"
    /\ fwdPc' = "crashed"
    /\ UNCHANGED <<prog, OffsetLoadMap, SortedStores, StoreIntervals, treeBuilt,
                   loadQueue, erased, replacedBy>>
    /\ UNCHANGED nonFwdVars

\* Without assertions the empty result has size() != 1: a continue
FwdAssertCompiledOut ==
    /\ fwdPc = "forward"
    /\ loadQueue # <<>>
    /\ LoadOutcome(Head(loadQueue).Offset, Head(loadQueue).Load) = "assert"
    /\ loadQueue' = Tail(loadQueue)
    /\ UNCHANGED <<prog, fwdPc, OffsetLoadMap, SortedStores, StoreIntervals, treeBuilt,
                   erased, replacedBy>>
    /\ UNCHANGED nonFwdVars

\* Mutant: the address instruction is erased with the load whatever uses it.
DeadPointerAlways(P, LoadPtr, gone) == LoadPtr # FramePtr

\* LoadPtr->use_empty() and LoadPtr is an instruction (the frame pointer is
\* an argument of the function)
DeadPointer(P, LoadPtr, gone) ==
    /\ Users(P, LoadPtr) \subseteq gone
    /\ LoadPtr # FramePtr

\* Lines 417-425: replaceAllUsesWith, erase the load, erase the dead pointer
FwdForwardLoad ==
    /\ fwdPc = "forward"
    /\ loadQueue # <<>>
    /\ LET Offset == Head(loadQueue).Offset
           Load == Head(loadQueue).Load
           LoadPtr == Node(prog, Load).ptr
       IN  /\ LoadOutcome(Offset, Load) = "forward"
           /\ replacedBy' = [replacedBy EXCEPT ![Load] = ForwardedStore(Offset)]
           /\ erased' = erased \cup {Load} \cup
                  (IF DeadPointer(prog, LoadPtr, erased \cup {Load}) THEN {LoadPtr} ELSE {})
    /\ loadQueue' = Tail(loadQueue)
    /\ UNCHANGED <<prog, fwdPc, OffsetLoadMap, SortedStores, StoreIntervals, treeBuilt>>
    /\ UNCHANGED nonFwdVars

\* The loops are over: the function returns
FwdReturn ==
    /\ fwdPc = "forward"
    /\ loadQueue = <<>>
    /\ fwdPc' = "done"
    /\ UNCHANGED <<prog, OffsetLoadMap, SortedStores, StoreIntervals, treeBuilt,
                   loadQueue, erased, replacedBy>>
    /\ UNCHANGED nonFwdVars

FwdNext ==
    \/ FwdCollect
    \/ FwdBuild
    \/ FwdSkipLoad
    \/ FwdAssertFails
    \/ FwdAssertCompiledOut
    \/ FwdForwardLoad
    \/ FwdReturn

RtIdle ==
    /\ isGraphics = FALSE
    /\ gfxMajor = GfxSwizzleMajor
    /\ wgDims = NoDims
    /\ calls = <<>>
    /\ rtPc = "idle"
    /\ m_stack = NoStack
    /\ m_callsToLower = <<>>
    /\ m_funcsToLower = {}
    /\ lowered = <<>>
    /\ liveCalls = {}
    /\ liveFuncs = {}
    /\ preserved = "unset"

FwdInitWith(programs) ==
    /\ RtIdle
    /\ RwIdle
    /\ UtilitiesIdle
    /\ prog \in programs
    /\ fwdPc = "start"
    /\ OffsetLoadMap = <<>>
    /\ SortedStores = <<>>
    /\ StoreIntervals = {}
    /\ treeBuilt = FALSE
    /\ loadQueue = <<>>
    /\ erased = {}
    /\ replacedBy = [l \in LoadIds(prog) |-> 0]

Program(ops, layout, useOrder, hazard) ==
    [ops |-> ops, layout |-> layout, useOrder |-> useOrder, hazard |-> hazard]

\* Frames with three accesses: two stores and a load, or a store and two loads.
\* i32 and f32 differ in name only, so the first store is never taken as f32.
FirstStoreOps == {op \in StoreOps : op.ty # "f32"}
AccessSeqs ==
    {<<a, b, c>> : a \in FirstStoreOps, b \in StoreOps, c \in LoadOps}
        \cup {<<a, b, c>> : a \in FirstStoreOps, b \in LoadOps, c \in LoadOps}

FwdPrograms ==
    {Program(o, l, u, "none") : o \in AccessSeqs, l \in {"own", "chain"}, u \in {"fwd", "rev"}}

SpecFwdInit == FwdInitWith(FwdPrograms)
SpecFwd == SpecFwdInit /\ [][FwdNext]_vars

\* Frames with a hazard: the accesses sit in fixed places and one more user of
\* the pointer of the first access is, or is not, a reason to give up.
Hazards == {"none", "gepdyn", "volatileLoad", "atomicStore", "storePtr", "call", "select"}
EarlyStoreOps == {op \in StoreOps : op.pos = <<1, 1>>}
HazardAccessSeqs ==
    {<<a, b, c>> : a \in EarlyStoreOps, b \in EarlyStoreOps, c \in LoadOps}
        \cup {<<a, b, c>> : a \in EarlyStoreOps, b \in LoadOps, c \in LoadOps}
HazardPrograms ==
    {Program(o, l, u, h) : o \in HazardAccessSeqs, l \in {"own", "chain"},
                           u \in {"fwd", "rev"}, h \in Hazards}

SpecFwdAbortInit == FwdInitWith(HazardPrograms)
SpecFwdAbort == SpecFwdAbortInit /\ [][FwdNext]_vars

-----------------------------------------------------------------------------
(* Properties of the store-to-load forwarding.  The meaning of the function  *)
(* under transformation is given by its executions, independently of what    *)
(* the analysis collects.                                                    *)

RECURSIVE AddressOf(_, _)
\* The byte offset into the frame of the pointer computed by node n
AddressOf(P, n) ==
    IF n = FramePtr THEN 0
    ELSE AddressOf(P, Node(P, n).ptr) + (IF Node(P, n).kind = "gep" THEN Node(P, n).off ELSE 0)

\* The bytes of the frame that access i reads or writes
FirstByte(P, i) == AddressOf(P, Node(P, i).ptr)
LastByte(P, i) == FirstByte(P, i) + getTypeStoreSize(P.ops[i].ty) - 1
BytesOf(P, i) == FirstByte(P, i)..LastByte(P, i)

RECURSIVE PathsOfLength(_)
\* The paths of n blocks from the entry
PathsOfLength(n) ==
    IF n = 1 THEN {<<Entry>>}
    ELSE {Append(qb[1], qb[2]) :
            qb \in {x \in PathsOfLength(n - 1) \X Blocks : <<x[1][Len(x[1])], x[2]>> \in Edges}}


\* The paths an execution may take through MaxPathLen blocks; every block has
\* a successor, so every shorter path is the beginning of one of these
ExecutionPaths == PathsOfLength(MaxPathLen)

\* The memory accesses of block b in program order
BlockCode(P, b) ==
    LET here == {i \in OpIds(P) : P.ops[i].pos[1] = b}
        rank(i) == Cardinality({j \in here : ComesBefore(P, j, i)})
    IN  [k \in 1..Cardinality(here) |-> CHOOSE i \in here : rank(i) = k - 1]

RECURSIVE TraceOf(_, _)
\* The memory accesses executed along a path, in order
TraceOf(P, path) ==
    IF path = <<>> THEN <<>>
    ELSE BlockCode(P, Head(path)) \o TraceOf(P, Tail(path))

\* The frame: each byte holds byte k of the value written by store s, as
\* <<s, k>>, or is uninitialised
FrameBytes == 0..(OffsetAt(NumOffsets) + 7)
Uninitialised == <<0, 0>>
EmptyFrame == [b \in FrameBytes |-> Uninitialised]

\* The frame after store s
WriteFrame(P, mem, s) ==
    [b \in FrameBytes |-> IF b \in BytesOf(P, s) THEN <<s, b - FirstByte(P, s)>> ELSE mem[b]]

\* Load l reads from the frame exactly the value that store s wrote
ReadsValueOf(P, mem, l, s) ==
    /\ P.ops[l].ty = P.ops[s].ty
    /\ \A b \in BytesOf(P, l) : mem[b] = <<s, b - FirstByte(P, l)>>

RECURSIVE ForwardsAgree(_, _, _, _)
\* Along a trace, every execution of a load that was replaced by the value of
\* a store reads that value from the frame
ForwardsAgree(P, trace, mem, fwd) ==
    IF trace = <<>> THEN TRUE
    ELSE LET i == Head(trace)
         IN  IF P.ops[i].kind = "store"
             THEN ForwardsAgree(P, Tail(trace), WriteFrame(P, mem, i), fwd)
             ELSE /\ fwd[i] # 0 => ReadsValueOf(P, mem, i, fwd[i])
                  /\ ForwardsAgree(P, Tail(trace), mem, fwd)

\* Store s has executed before every execution of load l
ExecutesBefore(P, s, l) ==
    \A path \in ExecutionPaths :
        LET t == TraceOf(P, path)
        IN  \A k \in 1..Len(t) : t[k] = l => \E j \in 1..(k - 1) : t[j] = s

\* The stores that write a byte that load l reads
Overlapping(P, l) == {s \in StoreIds(P) : BytesOf(P, s) \cap BytesOf(P, l) # {}}

\* The stores that write every byte that load l reads
Covering(P, l) == {s \in StoreIds(P) : BytesOf(P, l) \subseteq BytesOf(P, s)}

Forwarded == {l \in LoadIds(prog) : replacedBy[l] # 0}
Untouched(l) == replacedBy[l] = 0 /\ l \notin erased

\* C1: whenever a load has been replaced by the value of a store, every
\* execution of the original function that reaches the load reads from the
\* frame exactly the bytes that store wrote, as a value of the same type.
ForwardingSound ==
    Forwarded # {} =>
        \A path \in ExecutionPaths :
            ForwardsAgree(prog, TraceOf(prog, path), EmptyFrame, replacedBy)

\* C1 witness: a load in the loop was replaced by the value of a store of the
\* entry block while a second store, elsewhere in the frame, sits in the loop.
ForwardingSoundWitness ==
    /\ fwdPc = "done"
    /\ \E l \in Forwarded : \E s2 \in StoreIds(prog) :
          /\ prog.ops[replacedBy[l]].pos = <<1, 1>>
          /\ s2 # replacedBy[l]
          /\ prog.ops[s2].pos[1] = 3

\* C5: when the function has returned, a load overlapped by exactly one store
\* of the frame, which starts at the load's offset, stores a value of the
\* load's type and executes before it on every path, has been replaced by the
\* stored value and erased, and its address instruction has been erased
\* exactly when no use of it is left.
ForwardsSingleCoveringStore ==
    fwdPc = "done" =>
        \A l \in LoadIds(prog) : \A s \in StoreIds(prog) :
            ( /\ prog.ops[s].ty = prog.ops[l].ty
              /\ FirstByte(prog, s) = FirstByte(prog, l)
              /\ Overlapping(prog, l) = {s}
              /\ ExecutesBefore(prog, s, l) )
            => /\ replacedBy[l] = s
               /\ l \in erased
               /\ LET LoadPtr == Node(prog, l).ptr
                  IN  LoadPtr # FramePtr =>
                          (LoadPtr \in erased <=> Users(prog, LoadPtr) \subseteq erased)

\* C5 witness: two loads, each behind a GEP of its own, were both forwarded
\* from the only store that overlaps them, and their GEPs are gone with them.
ForwardsSingleCoveringStoreWitness ==
    /\ fwdPc = "done"
    /\ prog.layout = "own"
    /\ \E l1, l2 \in Forwarded :
          /\ l1 # l2
          /\ Overlapping(prog, l1) = {replacedBy[l1]}
          /\ replacedBy[l2] = replacedBy[l1]
          /\ Node(prog, l1).ptr # FramePtr
          /\ {Node(prog, l1).ptr, Node(prog, l2).ptr} \subseteq erased

\* C6: a load is replaced only when one single store writes every byte the
\* load reads; a load no single store covers stays in the function.
NoForwardWithoutCoveringStore ==
    \A l \in LoadIds(prog) :
        /\ replacedBy[l] # 0 => replacedBy[l] \in Covering(prog, l)
        /\ ~Untouched(l) => Covering(prog, l) # {}

\* C6 witness: 4-byte stores at offsets 0 and 4 and an 8-byte load at offset
\* 0, with the store of offset 0 in the entry block; the load is still there
\* when the function returns.
NoForwardWithoutCoveringStoreWitness ==
    /\ fwdPc = "done"
    /\ \E s1, s2 \in StoreIds(prog) : \E l \in LoadIds(prog) :
          /\ FirstByte(prog, s1) = 0 /\ LastByte(prog, s1) = 3
          /\ FirstByte(prog, s2) = 4 /\ LastByte(prog, s2) = 7
          /\ FirstByte(prog, l) = 0 /\ LastByte(prog, l) = 7
          /\ prog.ops[s1].pos = <<1, 1>>
          /\ Untouched(l)

\* C7: a load at offset O covered by a store over [O, R] stays in the function
\* when another store begins at an offset in (O, R].
NoForwardAcrossInnerStore ==
    \A l \in LoadIds(prog) :
        ~Untouched(l) =>
            \A s, s2 \in StoreIds(prog) :
                ~ ( /\ s \in Covering(prog, l)
                    /\ FirstByte(prog, s) = FirstByte(prog, l)
                    /\ s2 # s
                    /\ FirstByte(prog, s) < FirstByte(prog, s2)
                    /\ FirstByte(prog, s2) <= LastByte(prog, s) )

\* C7 witness: an 8-byte store at offset 0 in the entry block, a 4-byte store
\* at offset 4 and an 8-byte load at offset 0 of the stored type; the load is
\* still there when the function returns.
NoForwardAcrossInnerStoreWitness ==
    /\ fwdPc = "done"
    /\ \E s, s2 \in StoreIds(prog) : \E l \in LoadIds(prog) :
          /\ FirstByte(prog, s) = 0 /\ LastByte(prog, s) = 7
          /\ FirstByte(prog, s2) = 4 /\ LastByte(prog, s2) = 7
          /\ FirstByte(prog, l) = 0 /\ LastByte(prog, l) = 7
          /\ prog.ops[s].pos = <<1, 1>> /\ prog.ops[s].ty = prog.ops[l].ty
          /\ Untouched(l)

\* C8: when a use of the frame pointer is a reason to give up, the function
\* returns straight from the walk, in whatever order the uses are visited:
\* nothing is recorded, replaced or erased.
AbortLeavesFunctionUnchanged ==
    prog.hazard # "none" =>
        /\ fwdPc \in {"start", "done"}
        /\ erased = {}
        /\ \A l \in LoadIds(prog) : replacedBy[l] = 0
        /\ ~treeBuilt

\* C8 witness: the function has returned untouched although, the volatile
\* load apart, its first load could have been forwarded; the volatile load is
\* the last use visited.
AbortLeavesFunctionUnchangedWitness ==
    /\ fwdPc = "done"
    /\ prog.hazard = "volatileLoad"
    /\ prog.useOrder = "fwd"
    /\ erased = {}
    /\ \E l \in LoadIds(prog) : \E s \in StoreIds(prog) :
          /\ Overlapping(prog, l) = {s}
          /\ FirstByte(prog, s) = FirstByte(prog, l)
          /\ prog.ops[s].ty = prog.ops[l].ty
          /\ replacedBy[l] = 0

\* C22: whenever a load has been replaced by the value of a store, the store
\* starts at exactly the first byte the load reads (never before it), the
\* stored value has the load's type, and the store dominates the load: on
\* every path from the entry the store executes before the load.
ForwardedPairsMatch ==
    \A l \in Forwarded :
        LET st == replacedBy[l]
        IN  /\ st \in StoreIds(prog)
            /\ FirstByte(prog, st) = FirstByte(prog, l)
            /\ prog.ops[st].ty = prog.ops[l].ty
            /\ ExecutesBefore(prog, st, l)

\* C22 witness: an 8-byte store at offset 0 of the entry block; the load of
\* its type at offset 0 was replaced, the 4-byte load at offset 4, which the
\* store overlaps from the left, is still there when the function returns.
ForwardedPairsMatchWitness ==
    /\ fwdPc = "done"
    /\ \E l \in Forwarded : \E l2 \in LoadIds(prog) :
          LET st == replacedBy[l]
          IN  /\ FirstByte(prog, st) = 0 /\ LastByte(prog, st) = 7
              /\ FirstByte(prog, l2) = 4 /\ LastByte(prog, l2) = 7
              /\ Overlapping(prog, l2) = {st}
              /\ Untouched(l2)

(* The collection walk has finished without giving up *)
CollectionDone == fwdPc = "build" \/ treeBuilt

(* The records a structure holds for store st *)
SortedRecordsOf(st) == {i \in 1..Len(SortedStores) : SortedStores[i].Store = st}
IntervalsOf(st) == {iv \in StoreIntervals : iv.value = st}

\* C23: once the collection walk has finished without giving up, the
\* interval index and the sequence hold the same store records: each store
\* of the frame once in each, at its offset, and nothing else; the sequence
\* is sorted by offset once the index is built; queries are made on the
\* built index only, and a built index receives no insertion.
CollectedStoresAgree ==
    /\ [](/\ CollectionDone =>
                /\ Len(SortedStores) = Cardinality(StoreIds(prog))
                /\ Cardinality(StoreIntervals) = Cardinality(StoreIds(prog))
                /\ \A st \in StoreIds(prog) :
                      /\ Cardinality(SortedRecordsOf(st)) = 1
                      /\ Cardinality(IntervalsOf(st)) = 1
                      /\ \A i \in SortedRecordsOf(st) :
                            SortedStores[i].Offset = FirstByte(prog, st)
                      /\ \A iv \in IntervalsOf(st) :
                            /\ iv.left = FirstByte(prog, st)
                            /\ iv.right = LastByte(prog, st)
          /\ treeBuilt =>
                \A i \in 1..(Len(SortedStores) - 1) :
                    SortedStores[i].Offset <= SortedStores[i + 1].Offset
          /\ fwdPc \in {"forward", "crashed"} => treeBuilt
          /\ fwdPc = "start" => StoreIntervals = {} /\ ~treeBuilt)
    /\ [][treeBuilt => /\ StoreIntervals' = StoreIntervals
                       /\ SortedStores' = SortedStores
                       /\ treeBuilt']_vars

\* C23 witness: the forwarding loop runs on two stores of one offset, both in
\* the index and in the sequence.
CollectedStoresAgreeWitness ==
    /\ fwdPc = "forward"
    /\ treeBuilt
    /\ Len(SortedStores) = 2
    /\ SortedStores[1].Offset = SortedStores[2].Offset
    /\ SortedStores[1].Store # SortedStores[2].Store
    /\ Cardinality(StoreIntervals) = 2

\* C26 as stated: the assertion of the forwarding loop never fails: for every
\* load whose first byte O lies in exactly one store, which starts at O, the
\* query at the load's last byte finds a store.
RightQueryNeverEmpty ==
    /\ fwdPc # "crashed"
    /\ fwdPc = "forward" =>
          \A k \in 1..Len(loadQueue) :
              LET O == loadQueue[k].Offset
                  S == getTypeStoreSize(Node(prog, loadQueue[k].Load).ty)
                  found == getContaining(O)
              IN  (Cardinality(found) = 1 /\ \A iv \in found : iv.left = O)
                      => getContaining(O + S - 1) # {}


-----------------------------------------------------------------------------
(* replaceAllPointerUses: the instructions that use the pointer *)

(* Bounds of the model *)
MaxSpine == 4
MaxWorklist == 12

\* Values are numbered: the two pointers of the call, then the instructions
OldPointerValue == 0
NewPointerValue == -1

AddrSpaces == {"old", "new", "other"}

RwInst(kind, ops, ty) == [kind |-> kind, ops |-> ops, ty |-> ty]

\* The type value v has in the function as given
TypeIn(insts, v) == IF v = OldPointerValue THEN "old" ELSE insts[v].ty

\* The instructions that may come next: each computes with the value defined
\* last, a select chooses between the two values defined last
SpineOptions(insts) ==
    LET last == Len(insts)
        t == TypeIn(insts, last)
    IN  (IF t = "int"
         THEN {RwInst("add", <<last>>, "int"), RwInst("add", <<last, last>>, "int"),
               RwInst("and", <<last>>, "int"), RwInst("inttoptr", <<last>>, "old")}
         ELSE {RwInst("gep", <<last>>, t), RwInst("bitcast", <<last>>, t),
               RwInst("ptrtoint", <<last>>, "int")}
                  \cup {RwInst("addrspacecast", <<last>>, b) : b \in {"new", "other"} \ {t}})
        \cup (IF last >= 1 /\ TypeIn(insts, last - 1) = t
              THEN {RwInst("select", <<last, last - 1>>, t)}
              ELSE {})

RECURSIVE SpinesOfLength(_)
\* The sequences of k such instructions
SpinesOfLength(k) ==
    IF k = 0 THEN {<<>>}
    ELSE UNION {{Append(q, i) : i \in SpineOptions(q)} : q \in SpinesOfLength(k - 1)}

Spines == UNION {SpinesOfLength(k) : k \in 0..MaxSpine}

\* One more user, of any of the values, that defines nothing the walk follows
Leaves(insts) ==
    UNION {IF TypeIn(insts, v) = "int"
           THEN {RwInst("icmp", <<v>>, "none")}
           ELSE {RwInst(k, <<v>>, "none") : k \in {"load", "store", "lifetime", "call"}} :
               v \in 0..Len(insts)}

\* A function: a spine alone, or a spine with one leaf
RwBodies(q) == {q} \cup {Append(q, l) : l \in Leaves(q)}

RwNodes == 1..Len(rwProg.insts)
NewAS == rwType[NewPointerValue]

Reverse(q) == [i \in 1..Len(q) |-> q[Len(q) + 1 - i]]

RECURSIVE UsesAscending(_, _, _, _)
\* One entry per use of v by a live instruction numbered n or more
UsesAscending(ops, gone, v, n) ==
    IF n > Len(ops) THEN <<>>
    ELSE (IF n \in gone THEN <<>>
          ELSE [k \in 1..Cardinality({j \in DOMAIN ops[n] : ops[n][j] = v}) |-> n])
         \o UsesAscending(ops, gone, v, n + 1)

\* Value::users() in use-list order
RwUsers(ops, gone, v) ==
    IF rwProg.useOrder = "fwd" THEN UsesAscending(ops, gone, v, 1)
    ELSE Reverse(UsesAscending(ops, gone, v, 1))

\* Mutant: the uses stay where they are.
replaceAllUsesWithNothing(ops, from, to) == ops

\* Value::replaceAllUsesWith
replaceAllUsesWith(ops, from, to) ==
    [n \in DOMAIN ops |->
        [k \in DOMAIN ops[n] |-> IF ops[n][k] = from THEN to ELSE ops[n][k]]]

\* Mutant: the pointer type comes back with the address space it had.
getWithSamePointeeTypeKeepsSpace(PtrTy, AddressSpace) == PtrTy

\* getWithSamePointeeType for opaque pointers: PointerType::get(Context, AddressSpace)
getWithSamePointeeType(PtrTy, AddressSpace) == AddressSpace

\* The lambda GetMutatedPtrTy
GetMutatedPtrTy(Ty) == getWithSamePointeeType(Ty, NewAS)

\* The function as a caller sees it, lifetime markers apart: its instructions,
\* what each uses, the types, and the instructions handed back for removal
FunctionShape(types, ops, gone, removed) ==
    LET there == {n \in DOMAIN ops : n \notin gone /\ rwProg.insts[n].kind # "lifetime"}
    IN  [insts |-> there, uses |-> [n \in there |-> ops[n]], types |-> types,
         removed |-> removed]

\* The last call may start: the first, or a second one with the same arguments
RwCallable == rwPc = "start" \/ (rwPc = "done" /\ rwRuns = 1)

\* Lines 177-187: retype the old value, take its users, replace its uses
RwEnter ==
    /\ RwCallable
    /\ rwPc' = "walk"
    /\ rwType' = [rwType EXCEPT ![OldPointerValue] = rwType[NewPointerValue]]
    /\ rwWorklist' = RwUsers(rwOps, rwErased, OldPointerValue)
    /\ rwOps' = replaceAllUsesWith(rwOps, OldPointerValue, NewPointerValue)
    /\ UNCHANGED <<rwProg, rwErased, ToBeRemoved, rwRuns, rwAfterFirst>>
    /\ UNCHANGED nonRwVars

\* assert(NewAS != OldPtrTy->getAddressSpace()) fails in a build with assertions
RwAssertFails ==
    /\ RwCallable
    /\ rwType[OldPointerValue] = NewAS
    /\ rwPc' = "crashed"
    /\ UNCHANGED <<rwProg, rwType, rwOps, rwWorklist, rwErased, ToBeRemoved, rwRuns,
                   rwAfterFirst>>
    /\ UNCHANGED nonRwVars

\* Worklist.pop_back_val() yields an instruction of the given kinds.  (An
\* erased instruction is never popped: the users of a value are popped before
\* the value can be visited again, and an erased marker uses nothing.)
RwPops(kinds) ==
    /\ rwPc = "walk"
    /\ rwWorklist # <<>>
    /\ Len(rwWorklist) <= MaxWorklist
    /\ rwProg.insts[rwWorklist[Len(rwWorklist)]].kind \in kinds

\* Mutant: Worklist.back(), the value stays on the work list.
RwRestKeepsBack == rwWorklist

RwRest == SubSeq(rwWorklist, 1, Len(rwWorklist) - 1)

\* default: and a call that is no lifetime marker: llvm_unreachable
RwVisitUnhandled ==
    /\ RwPops({"icmp", "call"})
    /\ rwPc' \in {"crashed", "undefined"}
    /\ UNCHANGED <<rwProg, rwType, rwOps, rwWorklist, rwErased, ToBeRemoved, rwRuns,
                   rwAfterFirst>>
    /\ UNCHANGED nonRwVars

\* case Call, isLifetimeStartOrEnd: erase the marker; continue
RwVisitLifetime ==
    /\ RwPops({"lifetime"})
    /\ rwErased' = rwErased \cup {rwWorklist[Len(rwWorklist)]}
    /\ rwWorklist' = RwRest
    /\ UNCHANGED <<rwProg, rwPc, rwType, rwOps, ToBeRemoved, rwRuns, rwAfterFirst>>
    /\ UNCHANGED nonRwVars

\* case Load, Store: continue
RwVisitLoadStore ==
    /\ RwPops({"load", "store"})
    /\ rwWorklist' = RwRest
    /\ UNCHANGED <<rwProg, rwPc, rwType, rwOps, rwErased, ToBeRemoved, rwRuns, rwAfterFirst>>
    /\ UNCHANGED nonRwVars

\* case And, Add, PtrToInt: break, that is, go on with the users
RwVisitArith ==
    /\ RwPops({"and", "add", "ptrtoint"})
    /\ rwWorklist' = RwRest \o RwUsers(rwOps, rwErased, rwWorklist[Len(rwWorklist)])
    /\ UNCHANGED <<rwProg, rwPc, rwType, rwOps, rwErased, ToBeRemoved, rwRuns, rwAfterFirst>>
    /\ UNCHANGED nonRwVars

\* Inst->mutateType(GetMutatedPtrTy(Inst->getType())); break
RwMutateAndGoOn(Ptr) ==
    /\ rwType' = [rwType EXCEPT ![Ptr] = GetMutatedPtrTy(rwType[Ptr])]
    /\ rwWorklist' = RwRest \o RwUsers(rwOps, rwErased, Ptr)
    /\ UNCHANGED <<rwProg, rwPc, rwOps, rwErased, ToBeRemoved, rwRuns, rwAfterFirst>>
    /\ UNCHANGED nonRwVars

\* case BitCast
RwVisitBitCast ==
    /\ RwPops({"bitcast"})
    /\ RwMutateAndGoOn(rwWorklist[Len(rwWorklist)])

\* case IntToPtr, GetElementPtr
RwVisitIntToPtrGep ==
    /\ RwPops({"inttoptr", "gep"})
    /\ RwMutateAndGoOn(rwWorklist[Len(rwWorklist)])

\* Mutant: the walk ends at the cast, its users are not pushed.
RwVisitAddrSpaceCastStops ==
    /\ RwPops({"addrspacecast"})
    /\ LET Ptr == rwWorklist[Len(rwWorklist)]
           operand == rwOps[Ptr][1]
       IN  /\ rwWorklist' = SubSeq(rwWorklist, 1, Len(rwWorklist) - 1)
           /\ rwType' = [rwType EXCEPT ![Ptr] = rwType[NewPointerValue]]
           /\ rwOps' = [n \in DOMAIN rwOps |->
                           [k \in DOMAIN rwOps[n] |->
                               IF rwOps[n][k] = Ptr THEN operand ELSE rwOps[n][k]]]
           /\ ToBeRemoved' = Append(ToBeRemoved, Ptr)
    /\ UNCHANGED <<rwProg, rwPc, rwErased, rwRuns, rwAfterFirst>>
    /\ UNCHANGED nonRwVars

\* case AddrSpaceCast: the operand is asserted to be fixed already; the
\* users are pushed, the cast is retyped, replaced by its operand and handed
\* back for removal; continue
RwVisitAddrSpaceCast ==
    /\ RwPops({"addrspacecast"})
    /\ LET Ptr == rwWorklist[Len(rwWorklist)]
           operand == rwOps[Ptr][1]
       IN  /\ rwPc' \in (IF rwType[operand] = NewAS THEN {"walk"} ELSE {"walk", "crashed"})
           /\ rwWorklist' = RwRest \o RwUsers(rwOps, rwErased, Ptr)
           /\ rwType' = [rwType EXCEPT ![Ptr] = GetMutatedPtrTy(rwType[Ptr])]
           /\ rwOps' = replaceAllUsesWith(rwOps, Ptr, operand)
           /\ ToBeRemoved' = Append(ToBeRemoved, Ptr)
    /\ UNCHANGED <<rwProg, rwErased, rwRuns, rwAfterFirst>>
    /\ UNCHANGED nonRwVars

\* Mutant: a select never ends the walk.
RwVisitSelectGoesOn ==
    /\ RwPops({"select"})
    /\ LET Ptr == rwWorklist[Len(rwWorklist)]
       IN  /\ rwType' = [rwType EXCEPT ![Ptr] = IF @ = "int" THEN @
                                                ELSE rwType[NewPointerValue]]
           /\ rwWorklist' = SubSeq(rwWorklist, 1, Len(rwWorklist) - 1)
                                \o (IF rwProg.useOrder = "fwd"
                                    THEN UsesAscending(rwOps, rwErased, Ptr, 1)
                                    ELSE Reverse(UsesAscending(rwOps, rwErased, Ptr, 1)))
    /\ UNCHANGED <<rwProg, rwPc, rwOps, rwErased, ToBeRemoved, rwRuns, rwAfterFirst>>
    /\ UNCHANGED nonRwVars

\* case Select: a pointer select that has the new type already ends the walk
\* here; any other is retyped if it is a pointer; break
RwVisitSelect ==
    /\ RwPops({"select"})
    /\ LET Ptr == rwWorklist[Len(rwWorklist)]
           OldType == rwType[Ptr]
       IN  IF OldType \in AddrSpaces
           THEN IF GetMutatedPtrTy(OldType) = OldType
                THEN /\ rwWorklist' = RwRest
                     /\ UNCHANGED rwType
                ELSE /\ rwType' = [rwType EXCEPT ![Ptr] = GetMutatedPtrTy(OldType)]
                     /\ rwWorklist' = RwRest \o RwUsers(rwOps, rwErased, Ptr)
           ELSE /\ rwWorklist' = RwRest \o RwUsers(rwOps, rwErased, Ptr)
                /\ UNCHANGED rwType
    /\ UNCHANGED <<rwProg, rwPc, rwOps, rwErased, ToBeRemoved, rwRuns, rwAfterFirst>>
    /\ UNCHANGED nonRwVars

\* The work list is empty: the call returns
RwReturn ==
    /\ rwPc = "walk"
    /\ rwWorklist = <<>>
    /\ rwPc' = "done"
    /\ rwRuns' = rwRuns + 1
    /\ rwAfterFirst' = IF rwRuns = 0
                       THEN FunctionShape(rwType, rwOps, rwErased, ToBeRemoved)
                       ELSE rwAfterFirst
    /\ UNCHANGED <<rwProg, rwType, rwOps, rwWorklist, rwErased, ToBeRemoved>>
    /\ UNCHANGED nonRwVars

RwNext ==
    \/ RwEnter
    \/ RwAssertFails
    \/ RwVisitUnhandled
    \/ RwVisitLifetime
    \/ RwVisitLoadStore
    \/ RwVisitArith
    \/ RwVisitBitCast
    \/ RwVisitIntToPtrGep
    \/ RwVisitAddrSpaceCast
    \/ RwVisitSelect
    \/ RwReturn

\* The state at the call for a function out of a family of functions
\* Functions of supported instructions only: a spine alone, or a spine with a
\* load, a store or a lifetime marker of the value defined last
SupportedBodies(q) ==
    {q} \cup {Append(q, RwInst(k, <<Len(q)>>, "none")) :
                k \in IF TypeIn(q, Len(q)) = "int" THEN {} ELSE {"load", "store", "lifetime"}}

\* The function as given: any body, or a body of supported instructions only
RwInitWith(supportedOnly) ==
    /\ RtIdle
    /\ FwdIdle
    /\ UtilitiesIdle
    /\ \E q \in Spines :
       \E b \in IF supportedOnly THEN SupportedBodies(q) ELSE RwBodies(q) :
       \E u \in {"fwd", "rev"} :
          rwProg = [insts |-> b, useOrder |-> u]
    /\ rwPc = "start"
    /\ rwType = [v \in NewPointerValue..Len(rwProg.insts) |->
                    IF v = NewPointerValue THEN "new" ELSE TypeIn(rwProg.insts, v)]
    /\ rwOps = [n \in 1..Len(rwProg.insts) |-> rwProg.insts[n].ops]
    /\ rwWorklist = <<>>
    /\ rwErased = {}
    /\ ToBeRemoved = <<>>
    /\ rwRuns = 0
    /\ rwAfterFirst = <<>>

SpecRwInit == RwInitWith(FALSE)
SpecRw == SpecRwInit /\ [][RwNext]_vars

RwSupportedNext ==
    \/ RwEnter
    \/ RwAssertFails
    \/ RwVisitLifetime
    \/ RwVisitLoadStore
    \/ RwVisitArith
    \/ RwVisitBitCast
    \/ RwVisitIntToPtrGep
    \/ RwVisitAddrSpaceCast
    \/ RwVisitSelect
    \/ RwReturn

\* The loop of lines 197-267 keeps running while the work list is not empty,
\* and a returned call may be followed by the second one
SpecRwLiveInit == RwInitWith(TRUE)
SpecRwLive == SpecRwLiveInit /\ [][RwSupportedNext]_vars /\ WF_vars(RwSupportedNext)


-----------------------------------------------------------------------------
(* Properties of the address-space rewrite *)

\* The operations the walk follows from a value to the users of the value
FollowedKinds ==
    {"gep", "bitcast", "addrspacecast", "inttoptr", "select", "ptrtoint", "and", "add"}

\* The users of v in the function as given
GivenUsers(v) == {n \in RwNodes : \E k \in DOMAIN rwProg.insts[n].ops : rwProg.insts[n].ops[k] = v}

RECURSIVE ReachedFrom(_, _)
\* The instructions reachable from the old pointer through followed
\* operations, none of them followed beyond an instruction of stopAt
ReachedFrom(seen, stopAt) ==
    LET more == UNION {GivenUsers(n) :
                    n \in {m \in seen : rwProg.insts[m].kind \in FollowedKinds /\ m \notin stopAt}}
    IN  IF more \subseteq seen THEN seen ELSE ReachedFrom(seen \cup more, stopAt)

\* The pointer selects that had the new address space before the call
SelectsInNewSpace ==
    {n \in RwNodes : rwProg.insts[n].kind = "select" /\ rwProg.insts[n].ty = "new"}

\* Every pointer-typed instruction of R has the new address space and no
\* instruction of R uses a pointer of the old address space
Rewritten(R) ==
    \A n \in R \ rwErased :
        /\ rwType[n] \in AddrSpaces => rwType[n] = NewAS
        /\ \A k \in DOMAIN rwOps[n] : rwType[rwOps[n][k]] # "old"

\* C9 as stated: when the call has returned, every pointer-typed instruction
\* reachable from the rewritten pointer through the followed operations has
\* the new address space and none uses a pointer of the old address space.
AllReachableRewritten ==
    rwPc = "done" => Rewritten(ReachedFrom(GivenUsers(OldPointerValue), {}))

\* C9, amended: when the call has returned, every pointer-typed instruction
\* reachable from the rewritten pointer through the followed operations, and
\* not only through a select that had the new address space before the call,
\* has the new address space and none uses a pointer of the old address space.
ReachableBeforeNewSelectsRewritten ==
    rwPc = "done" => Rewritten(ReachedFrom(GivenUsers(OldPointerValue), SelectsInNewSpace))

\* C9 witness: the call has returned; a cast to a third address space was
\* folded away and an inttoptr at the end of an integer chain was retyped.
ReachableBeforeNewSelectsRewrittenWitness ==
    /\ rwPc = "done"
    /\ \E a, i \in RwNodes :
          /\ rwProg.insts[a].kind = "addrspacecast" /\ rwProg.insts[a].ty = "other"
          /\ rwType[a] = "new" /\ ToBeRemoved # <<>>
          /\ rwProg.insts[i].kind = "inttoptr" /\ rwProg.insts[i].ty = "old"
          /\ rwType[i] = "new"

OnlySupportedKinds ==
    \A n \in RwNodes : rwProg.insts[n].kind \notin {"call", "icmp"}

\* C11: on a function of supported instructions the walk, once entered,
\* empties its work list and the call returns, also when an instruction is
\* reached along several paths or uses one value in both operands.
WalkTerminates ==
    (rwPc = "walk" /\ OnlySupportedKinds) ~> (rwPc = "done" /\ rwWorklist = <<>>)

\* C11 witness: the call has returned on a function with an add of a value
\* to itself and a select between a value and a value computed from it, so
\* that instructions were visited more than once.
WalkTerminatesWitness ==
    /\ rwPc = "done"
    /\ OnlySupportedKinds
    /\ \E a, x \in RwNodes :
          /\ rwProg.insts[a].kind = "add" /\ rwProg.insts[a].ops = <<a - 1, a - 1>>
          /\ rwProg.insts[x].kind = "select" /\ x > a

(* The instruction the loop takes next, and the work list without it *)
Visited == rwWorklist[Len(rwWorklist)]
Remaining == SubSeq(rwWorklist, 1, Len(rwWorklist) - 1)
Visits(kind) ==
    /\ rwPc = "walk"
    /\ rwWorklist # <<>>
    /\ rwProg.insts[Visited].kind = kind

(* The live instructions that use v now, one entry per use, in use-list order *)
UsersNow(v) ==
    LET up == UsesAscending(rwOps, rwErased, v, 1)
    IN  IF rwProg.useOrder = "fwd" THEN up ELSE Reverse(up)

\* C24 as stated: a visited select is retyped and its users are pushed only if
\* it is pointer-typed and not of the new type; in every other case, not
\* pointer-typed or of the new type already, the walk stops at the select
\* and pushes nothing.
SelectStopsUnlessOldPointer ==
    [][Visits("select") =>
          IF rwType[Visited] \in AddrSpaces /\ rwType[Visited] # NewAS
          THEN /\ rwType' = [rwType EXCEPT ![Visited] = NewAS]
               /\ rwWorklist' = Remaining \o UsersNow(Visited)
          ELSE /\ rwType' = rwType
               /\ rwWorklist' = Remaining]_vars

\* C24, amended: a visited select that is pointer-typed and not of the new
\* type is retyped and its users are pushed; one that is pointer-typed and of
\* the new type already ends the walk there, nothing is pushed; one that is
\* not pointer-typed keeps its type and its users are pushed.
SelectStopsOnlyAtNewPointer ==
    [][Visits("select") =>
          IF rwType[Visited] \in AddrSpaces /\ rwType[Visited] # NewAS
          THEN /\ rwType' = [rwType EXCEPT ![Visited] = NewAS]
               /\ rwWorklist' = Remaining \o UsersNow(Visited)
          ELSE IF rwType[Visited] \in AddrSpaces
          THEN /\ rwType' = rwType
               /\ rwWorklist' = Remaining
          ELSE /\ rwType' = rwType
               /\ rwWorklist' = Remaining \o UsersNow(Visited)]_vars

\* C24 witness: the call has returned; an inttoptr whose only operand is an
\* integer select was retyped, so the walk went on beyond that select.
SelectStopsOnlyAtNewPointerWitness ==
    /\ rwPc = "done"
    /\ \E x, i \in RwNodes :
          /\ rwProg.insts[x].kind = "select" /\ rwProg.insts[x].ty = "int"
          /\ rwProg.insts[i].kind = "inttoptr" /\ rwProg.insts[i].ops = <<x>>
          /\ rwType[i] = "new"

(* No live instruction uses v *)
Unused(ops, gone, v) ==
    \A n \in DOMAIN ops : n \notin gone => \A k \in DOMAIN ops[n] : ops[n][k] # v

\* C25: when an address-space cast is visited its operand has the new
\* address space; the visit pushes all its users on the work list, leaves the
\* cast without uses, its former users using its operand, appends it to the
\* removal list and does not erase it; only the visited instruction ever
\* leaves the work list, and the work list is empty when the call returns,
\* so every former user was visited; at the return every cast of the removal
\* list is still in the function and has no use.
CastFoldedUsersVisited ==
    /\ [][Visits("addrspacecast") =>
             LET operand == rwOps[Visited][1]
             IN  /\ rwType[operand] = NewAS
                 /\ rwPc' = "walk"
                 /\ rwWorklist' = Remaining \o UsersNow(Visited)
                 /\ Unused(rwOps', rwErased', Visited)
                 /\ \A n \in DOMAIN rwOps : \A k \in DOMAIN rwOps[n] :
                       rwOps'[n][k] = IF rwOps[n][k] = Visited THEN operand
                                      ELSE rwOps[n][k]
                 /\ rwType'[Visited] = NewAS
                 /\ ToBeRemoved' = Append(ToBeRemoved, Visited)
                 /\ rwErased' = rwErased]_vars
    /\ [][(rwPc = "walk" /\ rwWorklist # <<>>) =>
             /\ Len(rwWorklist') >= Len(Remaining)
             /\ SubSeq(rwWorklist', 1, Len(Remaining)) = Remaining]_vars
    /\ [](rwPc = "done" =>
             /\ rwWorklist = <<>>
             /\ \A i \in DOMAIN ToBeRemoved :
                   /\ rwProg.insts[ToBeRemoved[i]].kind = "addrspacecast"
                   /\ ToBeRemoved[i] \notin rwErased
                   /\ Unused(rwOps, rwErased, ToBeRemoved[i]))

\* C25 witness: the call has returned; a cast of the removal list was used
\* by a GEP, which now uses the operand of the cast and has the new address
\* space.
CastFoldedUsersVisitedWitness ==
    /\ rwPc = "done"
    /\ \E c, g \in RwNodes :
          /\ rwProg.insts[c].kind = "addrspacecast"
          /\ \E i \in DOMAIN ToBeRemoved : ToBeRemoved[i] = c
          /\ rwProg.insts[g].kind = "gep" /\ rwProg.insts[g].ops = <<c>>
          /\ rwOps[g] = rwOps[c]
          /\ rwType[g] = "new"

\* C28 as stated: no instruction appears twice in the removal list, and no
\* erased instruction is on the work list.
RemovedOnceNeverTouchedAgain ==
    /\ \A i, j \in DOMAIN ToBeRemoved : ToBeRemoved[i] = ToBeRemoved[j] => i = j
    /\ \A k \in DOMAIN rwWorklist : rwWorklist[k] \notin rwErased

-----------------------------------------------------------------------------
(***************************************************************************)
(* replaceIntrinsicCall: a call to an lgc.rt operation is replaced by a    *)
(* call to its implementation in the GPURT library.                        *)
(***************************************************************************)

(* Bound of the model: the arguments a call carries and the parameters an
   implementation declares after the system data and hit data *)
MaxArgs == 2

GpuRtIntrinsicEntry(op, name, hit) == [op |-> op, Name |-> name, AccessesHitData |-> hit]

LgcRtGpuRtMap ==
    { GpuRtIntrinsicEntry("InstanceIdOp", "InstanceID", TRUE),
      GpuRtIntrinsicEntry("InstanceIndexOp", "InstanceIndex", TRUE),
      GpuRtIntrinsicEntry("HitKindOp", "HitKind", TRUE),
      GpuRtIntrinsicEntry("RayFlagsOp", "RayFlags", FALSE),
      GpuRtIntrinsicEntry("DispatchRaysIndexOp", "DispatchRaysIndex3", FALSE),
      GpuRtIntrinsicEntry("DispatchRaysDimensionsOp", "DispatchRaysDimensions3", FALSE),
      GpuRtIntrinsicEntry("WorldRayOriginOp", "WorldRayOrigin3", FALSE),
      GpuRtIntrinsicEntry("WorldRayDirectionOp", "WorldRayDirection3", FALSE),
      GpuRtIntrinsicEntry("ObjectRayOriginOp", "ObjectRayOrigin3", TRUE),
      GpuRtIntrinsicEntry("ObjectRayDirectionOp", "ObjectRayDirection3", TRUE),
      GpuRtIntrinsicEntry("ObjectToWorldOp", "ObjectToWorld4x3", TRUE),
      GpuRtIntrinsicEntry("WorldToObjectOp", "WorldToObject4x3", TRUE),
      GpuRtIntrinsicEntry("RayTminOp", "RayTMin", FALSE),
      GpuRtIntrinsicEntry("RayTcurrentOp", "RayTCurrent", TRUE),
      GpuRtIntrinsicEntry("IgnoreHitOp", "IgnoreHit", FALSE),
      GpuRtIntrinsicEntry("AcceptHitAndEndSearchOp", "AcceptHitAndEndSearch", FALSE),
      GpuRtIntrinsicEntry("TraceRayOp", "TraceRay", FALSE),
      GpuRtIntrinsicEntry("ReportHitOp", "ReportHit", FALSE),
      GpuRtIntrinsicEntry("CallCallableShaderOp", "CallShader", FALSE),
      GpuRtIntrinsicEntry("PrimitiveIndexOp", "PrimitiveIndex", TRUE),
      GpuRtIntrinsicEntry("GeometryIndexOp", "GeometryIndex", TRUE) }

DXILShaderKind ==
    {"Pixel", "Vertex", "Geometry", "Hull", "Domain", "Compute", "Library",
     "RayGeneration", "Intersection", "AnyHit", "ClosestHit", "Miss", "Callable",
     "Mesh", "Amplification", "Node", "Invalid"}

(* A called function: the dialect prefix of its name and the operation.  An
   indirect call has no called function. *)
Callee(prefix, op) == [prefix |-> prefix, op |-> op]

MappedCallees == {Callee("lgc.rt", e.op) : e \in LgcRtGpuRtMap}

UnmappedCallees == {Callee("lgc.rt", "ShaderIndexOp"), Callee("lgc.rt", "ShaderRecordBufferOp")}

OtherCallees == {Callee("lgc.cps", "JumpOp"), Callee("null", "indirect")}

Callees == MappedCallees \cup UnmappedCallees \cup OtherCallees

isLgcRtOpAlways(F) == TRUE

isLgcRtOp(F) == F.prefix # "null" /\ F.prefix = "lgc.rt"

EntryOf(F) == CHOOSE e \in LgcRtGpuRtMap : e.op = F.op

(* std::nullopt, the fatal error of line 116, or the entry *)
Found(found, name, hit) == [found |-> found, Name |-> name, AccessesHitData |-> hit]

findIntrImplEntryByIntrinsicCall(F) ==
    IF ~isLgcRtOp(F) THEN Found("nullopt", "", FALSE)
    ELSE IF \A e \in LgcRtGpuRtMap : e.op # F.op THEN Found("fatal", "", FALSE)
    ELSE Found("entry", EntryOf(F).Name, EntryOf(F).AccessesHitData)

(* Types of arguments and parameters: integers by their width, and one type
   that is no integer *)
IntWidths == {1, 8, 16}

IntTy(w) == [int |-> TRUE, width |-> w]

FloatTy == [int |-> FALSE, width |-> 32]

ArgTypes == {IntTy(w) : w \in IntWidths} \cup {FloatTy}

isIntegerTy(t) == t.int

TypeSeqs(n) == UNION {[1..k -> ArgTypes] : k \in 0..n}

(* The GPURT library: the functions it lacks, and how the system data the
   caller holds relates to the struct each function wants: the same struct,
   a struct nested in its first member, or no such struct *)
Nestings == {"exact", "nested", "foreign"}

Libraries == {{}, {"IntrImpl"}, {"GetHitData"}}

IcInput(F, kind, lacks, sys, trav, args, params) ==
    [callee |-> F, Kind |-> kind, lacks |-> lacks, SystemData |-> sys,
     TraversalData |-> trav, args |-> args, params |-> params]

(* The calls of the model: every callee in every stage against every library,
   without further arguments; and two operations, one of them reading hit
   data, with every list of arguments against every list of parameters. *)
ArgCallees == {Callee("lgc.rt", "TraceRayOp"), Callee("lgc.rt", "HitKindOp")}

ArgKinds == {"AnyHit", "ClosestHit"}

VoidOps == {"IgnoreHitOp", "AcceptHitAndEndSearchOp", "TraceRayOp", "CallCallableShaderOp"}

ImplName(entry) == <<"_cont_", entry.Name>>

(* What it reports through report_fatal_error *)
Fatal(text, names) == [kind |-> "fatal", text |-> text, names |-> names]

(* The values of the function under transformation *)
Val(v, i) == [v |-> v, i |-> i]

icEntry == findIntrImplEntryByIntrinsicCall(icCall.callee)

(* lines 936-946: the lookups *)
IcNotApplicable ==
    /\ icPc = "start"
    /\ icEntry.found = "nullopt"
    /\ icPc' = "done"
    /\ icResult' = Returned("nullptr")
    /\ UNCHANGED <<icCall, icEmitted, Arguments, icOrig>>
    /\ UNCHANGED nonIcVars

IcUnhandledOp ==
    /\ icPc = "start"
    /\ icEntry.found = "fatal"
    /\ icPc' = "fatal"
    /\ icResult' = Fatal("Unhandled lgc.rt op!", <<>>)
    /\ UNCHANGED <<icCall, icEmitted, Arguments, icOrig>>
    /\ UNCHANGED nonIcVars

IcImplMissing ==
    /\ icPc = "start"
    /\ icEntry.found = "entry"
    /\ "IntrImpl" \in icCall.lacks
    /\ icPc' = "fatal"
    /\ icResult' = Fatal("Intrinsic implementation not found", <<ImplName(icEntry)>>)
    /\ UNCHANGED <<icCall, icEmitted, Arguments, icOrig>>
    /\ UNCHANGED nonIcVars

IcImplFound ==
    /\ icPc = "start"
    /\ icEntry.found = "entry"
    /\ "IntrImpl" \notin icCall.lacks
    /\ icPc' = "sysdata"
    /\ UNCHANGED <<icCall, icEmitted, Arguments, icOrig, icResult>>
    /\ UNCHANGED nonIcVars

(* getDXILSystemData, lines 905-929: the instructions it creates and the
   value it returns; "fatal" when the struct is not found *)
Created(op, operands, at) == [op |-> op, operands |-> operands, at |-> at]

getDXILSystemData(nesting, wanted) ==
    CASE nesting = "exact" -> [fatal |-> FALSE, insts |-> <<>>, value |-> Val("SystemData", 0)]
      [] nesting = "nested" ->
            [fatal |-> FALSE,
             insts |-> <<Created("gep", <<Val("SystemData", 0)>>, "call")>>,
             value |-> Val(wanted, 0)]
      [] OTHER -> [fatal |-> TRUE, insts |-> <<>>, value |-> Val("none", 0)]

(* lines 948-952 *)
IcSystemData ==
    /\ icPc = "sysdata"
    /\ LET sd == getDXILSystemData(icCall.SystemData, "gep.impl")
       IN IF sd.fatal
          THEN /\ icPc' = "fatal"
               /\ icResult' = Fatal("Invalid system data struct", <<>>)
               /\ UNCHANGED <<icEmitted, Arguments>>
          ELSE /\ icPc' = "hitdata"
               /\ icEmitted' = icEmitted \o sd.insts
               /\ Arguments' = <<sd.value>>
               /\ UNCHANGED icResult
    /\ UNCHANGED <<icCall, icOrig>>
    /\ UNCHANGED nonIcVars

(* lines 957-980: the state accessor the stage selects *)
GetHitDataCandidateOnlyAnyHit(Kind) ==
    IF Kind = "AnyHit" THEN "_cont_GetCandidateState" ELSE "_cont_GetCommittedState"

GetHitData(Kind) ==
    IF Kind = "AnyHit" \/ Kind = "Intersection"
    THEN "_cont_GetCandidateState"
    ELSE "_cont_GetCommittedState"

(* line 955, the operation reads no hit data *)
IcNoHitData ==
    /\ icPc = "hitdata"
    /\ ~icEntry.AccessesHitData
    /\ icPc' = "args"
    /\ UNCHANGED <<icCall, icEmitted, Arguments, icOrig, icResult>>
    /\ UNCHANGED nonIcVars

(* lines 961 and 972: the library lacks the accessor.  The assertion stops a
   build with assertions; without them line 984 reads through the null
   pointer. *)
IcHitDataAssertFails ==
    /\ icPc = "hitdata"
    /\ icEntry.AccessesHitData
    /\ "GetHitData" \in icCall.lacks
    /\ icPc' \in {"crashed", "undefined"}
    /\ UNCHANGED <<icCall, icEmitted, Arguments, icOrig, icResult>>
    /\ UNCHANGED nonIcVars

(* lines 955-995 *)
IcHitData ==
    /\ icPc = "hitdata"
    /\ icEntry.AccessesHitData
    /\ "GetHitData" \notin icCall.lacks
    /\ LET accessor == GetHitData(icCall.Kind)
           alloca == Created("alloca", <<Val(accessor, 0)>>, "entry")
           td == getDXILSystemData(icCall.TraversalData, "gep.traversal")
       IN IF td.fatal
          THEN /\ icPc' = "fatal"
               /\ icResult' = Fatal("Invalid system data struct", <<>>)
               /\ icEmitted' = Append(icEmitted, alloca)
               /\ UNCHANGED Arguments
          ELSE /\ icPc' = "args"
               /\ icEmitted' = icEmitted \o <<alloca>> \o td.insts
                                 \o << Created("call", <<Val(accessor, 0), td.value>>, "call"),
                                       Created("store", <<Val("HitData", 0), Val("HitDataAlloca", 0)>>, "call") >>
               /\ Arguments' = Append(Arguments, Val("HitDataAlloca", 0))
               /\ UNCHANGED icResult
    /\ UNCHANGED <<icCall, icOrig>>
    /\ UNCHANGED nonIcVars

(* lines 1000-1002: the loop variables *)
FirstImplI == IF icEntry.AccessesHitData THEN 2 ELSE 1

CallI == Len(Arguments) - FirstImplI

InArgLoop ==
    /\ icPc = "args"
    /\ CallI < Len(icCall.params)

(* line 1003 with no such operand: getArgOperand asserts, or reads past the
   operand list *)
IcArgOutOfRange ==
    /\ InArgLoop
    /\ CallI >= Len(icCall.args)
    /\ icPc' \in {"crashed", "undefined"}
    /\ UNCHANGED <<icCall, icEmitted, Arguments, icOrig, icResult>>
    /\ UNCHANGED nonIcVars

(* lines 1006-1007 *)
IcForwardArg ==
    /\ InArgLoop
    /\ CallI < Len(icCall.args)
    /\ icCall.args[CallI + 1] = icCall.params[CallI + 1]
    /\ Arguments' = Append(Arguments, Val("Arg", CallI))
    /\ UNCHANGED <<icCall, icPc, icEmitted, icOrig, icResult>>
    /\ UNCHANGED nonIcVars

(* lines 1008-1010.  CreateZExt to a narrower type is no valid cast:
   CastInst::Create asserts, and without assertions the instruction is
   created as it is. *)
IcZExtArg ==
    /\ InArgLoop
    /\ CallI < Len(icCall.args)
    /\ LET ArgType == icCall.args[CallI + 1]
           NewType == icCall.params[CallI + 1]
       IN /\ ArgType # NewType
          /\ isIntegerTy(NewType) /\ isIntegerTy(ArgType)
          /\ \/ /\ icEmitted' = Append(icEmitted,
                                       Created("zext", <<Val("Arg", CallI)>>, "call"))
                /\ Arguments' = Append(Arguments, Val("zext", CallI))
                /\ UNCHANGED icPc
             \/ /\ NewType.width < ArgType.width
                /\ icPc' = "crashed"
                /\ UNCHANGED <<icEmitted, Arguments>>
    /\ UNCHANGED <<icCall, icOrig, icResult>>
    /\ UNCHANGED nonIcVars

(* lines 1011-1020 *)
IcArgMismatch ==
    /\ InArgLoop
    /\ CallI < Len(icCall.args)
    /\ LET ArgType == icCall.args[CallI + 1]
           NewType == icCall.params[CallI + 1]
       IN /\ ArgType # NewType
          /\ ~(isIntegerTy(NewType) /\ isIntegerTy(ArgType))
          /\ icPc' = "fatal"
          /\ icResult' = Fatal("Can't convert", <<ArgType, NewType, icEntry.Name>>)
    /\ UNCHANGED <<icCall, icEmitted, Arguments, icOrig>>
    /\ UNCHANGED nonIcVars

(* lines 1023-1031 *)
IcCreateCall ==
    /\ icPc = "args"
    /\ CallI >= Len(icCall.params)
    /\ icEmitted' = Append(icEmitted, Created("call", <<Val(icEntry.Name, 0)>> \o Arguments, "call"))
    /\ icOrig' = [uses |-> IF icCall.callee.op \in VoidOps THEN "Call" ELSE "NewCall",
                  erased |-> TRUE]
    /\ icResult' = Returned("NewCall")
    /\ icPc' = "done"
    /\ UNCHANGED <<icCall, Arguments>>
    /\ UNCHANGED nonIcVars

IcNext ==
    \/ IcNotApplicable
    \/ IcUnhandledOp
    \/ IcImplMissing
    \/ IcImplFound
    \/ IcSystemData
    \/ IcNoHitData
    \/ IcHitDataAssertFails
    \/ IcHitData
    \/ IcArgOutOfRange
    \/ IcForwardArg
    \/ IcZExtArg
    \/ IcArgMismatch
    \/ IcCreateCall

IcInputs ==
    {IcInput(F, k, l, s, t, <<>>, <<>>) :
        F \in Callees, k \in DXILShaderKind, l \in Libraries, s \in Nestings, t \in Nestings}
    \cup
    {IcInput(F, k, {}, "exact", "exact", a, p) :
        F \in ArgCallees, k \in ArgKinds, a \in TypeSeqs(MaxArgs), p \in TypeSeqs(MaxArgs)}

SpecIntrinsicInit ==
    /\ RtIdle
    /\ FwdIdle
    /\ RwIdle
    /\ SpIdle
    /\ EdIdle
    /\ icCall \in IcInputs
    /\ icPc = "start"
    /\ icEmitted = <<>>
    /\ Arguments = <<>>
    /\ icOrig = [uses |-> "Call", erased |-> FALSE]
    /\ icResult = Returned("none")

SpecIntrinsic == SpecIntrinsicInit /\ [][IcNext]_vars

-----------------------------------------------------------------------------
(* Properties of replaceIntrinsicCall *)

TableEntries == {e \in LgcRtGpuRtMap : icCall.callee.prefix = "lgc.rt" /\ e.op = icCall.callee.op}

StateAccessors == {"_cont_GetCandidateState", "_cont_GetCommittedState"}

AccessorCalls ==
    {i \in DOMAIN icEmitted :
        icEmitted[i].op = "call" /\ icEmitted[i].operands[1].v \in StateAccessors}

StageAccessor ==
    IF icCall.Kind \in {"AnyHit", "Intersection"}
    THEN "_cont_GetCandidateState"
    ELSE "_cont_GetCommittedState"

PassesHitData == \E i \in DOMAIN Arguments : Arguments[i].v = "HitDataAlloca"

\* C12: for an operation whose table entry is marked as accessing hit data,
\* in every shader stage, the hit data is fetched through
\* _cont_GetCandidateState exactly when the stage is any-hit or intersection
\* and through _cont_GetCommittedState otherwise, and it is passed as the
\* second argument; for an operation that is not marked, no state accessor
\* is called and no hit data is passed.
HitDataFetchedByStage ==
    \A e \in TableEntries :
        IF e.AccessesHitData
        THEN /\ \A i \in AccessorCalls : icEmitted[i].operands[1].v = StageAccessor
             /\ icPc \in {"args", "done"} =>
                    /\ Cardinality(AccessorCalls) = 1
                    /\ Len(Arguments) >= 2
                    /\ Arguments[2].v = "HitDataAlloca"
        ELSE /\ AccessorCalls = {}
             /\ ~PassesHitData

HitDataFetchedByStageWitness ==
    /\ icPc = "done"
    /\ icCall.Kind = "Intersection"
    /\ \E e \in TableEntries : e.AccessesHitData
    /\ \E i \in AccessorCalls : icEmitted[i].operands[1].v = "_cont_GetCandidateState"

CallUntouched ==
    /\ icEmitted = <<>>
    /\ icOrig = [uses |-> "Call", erased |-> FALSE]

ValuesOf(w) == {0, 1, Pow2(w - 1), Pow2(w) - 1}

(* What a zext instruction from width `from` to width `to` can yield for the
   operand v: v itself when it widens; an invalid cast to a narrower type
   has no defined result, any value of the narrower type *)
ZExtResults(v, from, to) ==
    IF from < to THEN {v} ELSE 0..(Pow2(to) - 1)

ForwardedPositions == 1..(Len(Arguments) - FirstImplI)

PassedAt(i) == Arguments[FirstImplI + i]

\* C20: of the remaining original arguments, one whose type equals the
\* parameter's type is passed unchanged; an integer argument whose width
\* differs from the integer parameter's width is passed zero-extended, the
\* passed value being numerically equal to the original unsigned value, for
\* every pair of differing widths; every other mismatch is a fatal error
\* naming both types.
ForwardedArgumentsKeepValue ==
    icPc \in {"args", "done", "fatal"} /\ icEntry.found = "entry" =>
        /\ \A i \in ForwardedPositions :
              LET ArgType == icCall.args[i]
                  NewType == icCall.params[i]
              IN IF ArgType = NewType
                 THEN PassedAt(i) = Val("Arg", i - 1)
                 ELSE /\ ArgType.int /\ NewType.int
                      /\ PassedAt(i) = Val("zext", i - 1)
                      /\ \A v \in ValuesOf(ArgType.width) :
                            \A r \in ZExtResults(v, ArgType.width, NewType.width) : r = v
        /\ icResult.text = "Can't convert" =>
              LET i == Len(Arguments) - FirstImplI + 1
              IN /\ icCall.args[i] # icCall.params[i]
                 /\ ~(icCall.args[i].int /\ icCall.params[i].int)
                 /\ icResult.names = <<icCall.args[i], icCall.params[i], icEntry.Name>>

-----------------------------------------------------------------------------
(***************************************************************************)
(* continuationStackOffsetToPtr: a continuation stack offset becomes a     *)
(* pointer into the address space the module's metadata names.             *)
(***************************************************************************)

(* Bounds of the model: the offsets and the base addresses of the stack *)
NumStackOffsets == 6
NumStackBases == 4

(* enum class ContStackAddrspace *)
ContStackAddrspace == {"Scratch", "Global"}

StackOffsets == {4 * k : k \in 0..(NumStackOffsets - 1)} \cup {Pow2(16), Pow2(30)}

StackBases == {Pow2(20) * k : k \in 0..(NumStackBases - 1)}

(* The module of the insertion point with its metadata, the offset, and the
   GPURT library: whether it has _cont_GetContinuationStackGlobalMemBase and
   the address that function yields *)
SpInput(mode, offset, base, lacks) ==
    [mode |-> mode, Offset |-> offset, Base |-> base, lacksBase |-> lacks]

SpInputs ==
    {SpInput(m, o, b, l) : m \in ContStackAddrspace \cup {"none"}, o \in StackOffsets,
                           b \in StackBases, l \in BOOLEAN}

(* ContHelper::tryGetStackAddrspace of the module: the value of the metadata, "none"
   when the module has no such metadata *)
tryGetStackAddrspaceOrDefault(M) == IF M.mode = "none" THEN "Scratch" ELSE M.mode

tryGetStackAddrspace(M) == M.mode

(* getPointerTo: the address space number is the value of the enum *)
getPointerToScratch(StackAddrspace) == "Scratch"

getPointerTo(StackAddrspace) == StackAddrspace

(* The pointers the created instructions compute *)
Pointer(as, addr) == [as |-> as, addr |-> addr]

CreateIntToPtr(V, PtrTy) == Pointer(PtrTy, V)

CreateGEP(ElemSize, Ptr, Index) == Pointer(Ptr.as, Ptr.addr + ElemSize * Index)

Int8Bytes == 1

(* lines 689-693 *)
SpMissingMode ==
    /\ spPc = "start"
    /\ tryGetStackAddrspace(spModule) = "none"
    /\ spPc' = "fatal"
    /\ UNCHANGED <<spModule, spEmitted, spResult>>
    /\ UNCHANGED nonSpVars

(* lines 694-697 *)
SpScratch ==
    /\ spPc = "start"
    /\ tryGetStackAddrspace(spModule) = "Scratch"
    /\ spEmitted' = <<Created("inttoptr", <<Val("Offset", 0)>>, "insert")>>
    /\ spResult' = CreateIntToPtr(spModule.Offset, getPointerTo(tryGetStackAddrspace(spModule)))
    /\ spPc' = "done"
    /\ UNCHANGED spModule
    /\ UNCHANGED nonSpVars

(* lines 797-798: the library lacks the function; the assertion stops a build
   with assertions, without them the inliner reads through the null pointer *)
SpBaseAssertFails ==
    /\ spPc = "start"
    /\ tryGetStackAddrspace(spModule) = "Global"
    /\ spModule.lacksBase
    /\ spPc' \in {"crashed", "undefined"}
    /\ UNCHANGED <<spModule, spEmitted, spResult>>
    /\ UNCHANGED nonSpVars

(* lines 699-709 *)
SpGlobal ==
    /\ spPc = "start"
    /\ tryGetStackAddrspace(spModule) = "Global"
    /\ ~spModule.lacksBase
    /\ LET PtrTy == getPointerTo(tryGetStackAddrspace(spModule))
           BaseAddrPtr == CreateIntToPtr(spModule.Base, PtrTy)
       IN /\ spEmitted' = << Created("call", <<Val("_cont_GetContinuationStackGlobalMemBase", 0)>>, "insert"),
                             Created("inttoptr", <<Val("BaseAddr", 0)>>, "insert"),
                             Created("gep", <<Val("BaseAddrPtr", 0), Val("Offset", 0)>>, "insert") >>
          /\ spResult' = CreateGEP(Int8Bytes, BaseAddrPtr, spModule.Offset)
    /\ spPc' = "done"
    /\ UNCHANGED spModule
    /\ UNCHANGED nonSpVars

SpNext ==
    \/ SpMissingMode
    \/ SpScratch
    \/ SpBaseAssertFails
    \/ SpGlobal

SpecStackPtrInit ==
    /\ RtIdle
    /\ FwdIdle
    /\ RwIdle
    /\ IcIdle
    /\ EdIdle
    /\ spModule \in SpInputs
    /\ spPc = "start"
    /\ spEmitted = <<>>
    /\ spResult = NoPointer

SpecStackPtr == SpecStackPtrInit /\ [][SpNext]_vars

-----------------------------------------------------------------------------
(* Properties of continuationStackOffsetToPtr *)

LibraryCalls == {i \in DOMAIN spEmitted : spEmitted[i].op = "call"}

\* C14: in Scratch mode the returned pointer is the offset itself in the
\* scratch address space and no runtime-library function is called; in Global
\* mode it is the 64-bit base the runtime library returns, as a byte pointer
\* in the global address space, plus the offset in bytes; the address space
\* of the returned pointer is always the configured mode.
OffsetToPtrByMode ==
    spPc = "done" =>
        /\ spResult.as = spModule.mode
        /\ spModule.mode = "Scratch" =>
              /\ spResult.addr = spModule.Offset
              /\ LibraryCalls = {}
        /\ spModule.mode = "Global" =>
              /\ spResult.addr = spModule.Base + spModule.Offset
              /\ LibraryCalls = {1}
              /\ spEmitted[1].operands[1].v = "_cont_GetContinuationStackGlobalMemBase"

OffsetToPtrByModeWitness ==
    /\ spPc = "done"
    /\ spModule.mode = "Global"
    /\ spModule.Base > 0
    /\ spModule.Offset > 0
    /\ spResult.addr = spModule.Base + spModule.Offset

\* C15: when the module carries no stack addressing mode the function fails
\* fatally: it never returns a pointer of a default mode, and it has created
\* no instruction when it fails.
MissingModeIsFatal ==
    spModule.mode = "none" =>
        /\ spPc \in {"start", "fatal"}
        /\ spEmitted = <<>>
        /\ spResult = NoPointer

MissingModeIsFatalWitness ==
    /\ spPc = "fatal"
    /\ spModule.mode = "none"
    /\ spEmitted = <<>>

-----------------------------------------------------------------------------
(***************************************************************************)
(* earlyDriverTransform: the calls of the driver intrinsics of a module    *)
(* are replaced, some of them by values from the module's metadata.        *)
(***************************************************************************)

(* Bound of the model: the functions of a module *)
MaxFuncs == 2

(* A function: how its name starts, which of the searched words the name
   contains (the first that line 1128-1132 finds), and whether it has the
   signature the handler of its prefix asserts.  Each function has one call. *)
NamePrefixes ==
    {"_AmdContinuationStackIsGlobal", "_AmdContinuationsGetFlags", "_AmdGetRtip",
     "_AmdGetUninitialized", "other"}

NameWords == {"WaitEnqueue", "Enqueue", "Complete", "none"}

AssertingPrefixes == {"_AmdContinuationStackIsGlobal", "_AmdContinuationsGetFlags", "_AmdGetRtip"}

EdFunction(prefix, word, sig) == [prefix |-> prefix, word |-> word, sigOk |-> sig]

EdFunctions ==
    {EdFunction(p, w, TRUE) : p \in NamePrefixes, w \in NameWords}
    \cup {EdFunction(p, "none", FALSE) : p \in AssertingPrefixes}

EdFunctionLists == UNION {[1..n -> EdFunctions] : n \in 0..MaxFuncs}

(* The metadata of the module: the address space or "none", and for flags
   and rtip level a std::optional, the empty sequence or <<value>>.
   ContHelper::DefaultStackAddrspace is a constant defined outside this
   source: the model takes either mode for it. *)
FlagsValue == 5
RtipValue == 2

EdMetadata ==
    {[StackAddrspace |-> a, Default |-> d, Flags |-> f, Rtip |-> r] :
        a \in ContStackAddrspace \cup {"none"}, d \in ContStackAddrspace,
        f \in {<<>>, <<FlagsValue>>}, r \in {<<>>, <<RtipValue>>}}

(* lines 1114-1121 *)
value_or_none(MD, Default) == MD

value_or(MD, Default) == IF MD = "none" THEN Default ELSE MD

StackAddrspace == value_or(edModule.md.StackAddrspace, edModule.md.Default)

(* lines 1126-1133 *)
Replacement(F) ==
    CASE F.word = "WaitEnqueue" -> "continuation.waitContinue"
      [] F.word = "Enqueue" -> "continuation.continue"
      [] F.word = "Complete" -> "continuation.complete"
      [] OTHER -> "nullptr"

(* The constants that replace calls *)
Const(ty, v) == [ty |-> ty, v |-> v]

NoValue == Const("none", 0)

(* What became of the call of a function: the function it calls and, once
   the call is erased, the value that replaced its uses *)
EdCall(callee, gone, value) == [callee |-> callee, erased |-> gone, value |-> value]

(* lines 1135-1138, replaceEnqueueIntrinsic: the call is replaced by a call
   of the replacement *)
AfterReplacement(F) ==
    IF Replacement(F) # "nullptr"
    THEN EdCall(Replacement(F), FALSE, NoValue)
    ELSE EdCall("F", FALSE, NoValue)

(* forEachCall of the handlers: a call of F that is still there is replaced
   by the value and erased *)
Handled(F, value) ==
    IF AfterReplacement(F).callee = "F"
    THEN EdCall("F", TRUE, value)
    ELSE AfterReplacement(F)

EdF == edModule.funcs[edNext]

InLoop == edPc = "loop" /\ edNext <= Len(edModule.funcs)

EdVisit(changed, call) ==
    /\ edChanged' = (edChanged \/ changed \/ Replacement(EdF) # "nullptr")
    /\ edCalls' = Append(edCalls, call)
    /\ edNext' = edNext + 1
    /\ UNCHANGED <<edModule, edPc>>
    /\ UNCHANGED nonEdVars

EdFails(how) ==
    /\ edChanged' = TRUE
    /\ edCalls' = Append(edCalls, AfterReplacement(EdF))
    /\ edPc' = how
    /\ UNCHANGED <<edModule, edNext>>
    /\ UNCHANGED nonEdVars

(* lines 1125-1138 and no branch of lines 1140-1158 *)
EdVisitOther ==
    /\ InLoop
    /\ EdF.prefix = "other"
    /\ EdVisit(FALSE, AfterReplacement(EdF))

(* lines 1060-1062, 1074-1076, 1088-1090: the assertion on the signature, in
   a build with assertions *)
EdAssertFails ==
    /\ InLoop
    /\ EdF.prefix \in AssertingPrefixes
    /\ ~EdF.sigOk
    /\ EdF.prefix = "_AmdContinuationsGetFlags" => edModule.md.Flags # <<>>
    /\ EdF.prefix = "_AmdGetRtip" => edModule.md.Rtip # <<>>
    /\ EdFails("crashed")

(* lines 1140-1142 and 1058-1071 *)
EdVisitStackIsGlobal ==
    /\ InLoop
    /\ EdF.prefix = "_AmdContinuationStackIsGlobal"
    /\ EdVisit(TRUE, Handled(EdF, Const("i1", IF StackAddrspace = "Global" THEN 1 ELSE 0)))

(* lines 1143-1148 and 1073-1085 *)
EdGetFlagsMissing ==
    /\ InLoop
    /\ EdF.prefix = "_AmdContinuationsGetFlags"
    /\ edModule.md.Flags = <<>>
    /\ EdFails("fatal flags")

EdVisitGetFlags ==
    /\ InLoop
    /\ EdF.prefix = "_AmdContinuationsGetFlags"
    /\ edModule.md.Flags # <<>>
    /\ EdVisit(TRUE, Handled(EdF, Const("i32", edModule.md.Flags[1])))

(* lines 1149-1154 and 1087-1102 *)
EdGetRtipMissing ==
    /\ InLoop
    /\ EdF.prefix = "_AmdGetRtip"
    /\ edModule.md.Rtip = <<>>
    /\ EdFails("fatal rtip")

EdVisitGetRtip ==
    /\ InLoop
    /\ EdF.prefix = "_AmdGetRtip"
    /\ edModule.md.Rtip # <<>>
    /\ EdVisit(TRUE, Handled(EdF, Const("i32", edModule.md.Rtip[1])))

(* lines 1155-1157 and 1104-1111 *)
EdVisitGetUninitialized ==
    /\ InLoop
    /\ EdF.prefix = "_AmdGetUninitialized"
    /\ EdVisit(TRUE, Handled(EdF, Const("poison", 0)))

(* line 1161 *)
EdReturn ==
    /\ edPc = "loop"
    /\ edNext > Len(edModule.funcs)
    /\ edPc' = "done"
    /\ UNCHANGED <<edModule, edNext, edCalls, edChanged>>
    /\ UNCHANGED nonEdVars

EdNextStep ==
    \/ EdVisitOther
    \/ EdAssertFails
    \/ EdVisitStackIsGlobal
    \/ EdGetFlagsMissing
    \/ EdVisitGetFlags
    \/ EdGetRtipMissing
    \/ EdVisitGetRtip
    \/ EdVisitGetUninitialized
    \/ EdReturn

SpecDriverInit ==
    /\ RtIdle
    /\ FwdIdle
    /\ RwIdle
    /\ IcIdle
    /\ SpIdle
    /\ \E md \in EdMetadata : \E fs \in EdFunctionLists :
          /\ md.StackAddrspace # "none" => md.Default = "Scratch"
          /\ edModule = [md |-> md, funcs |-> fs]
    /\ edPc = "loop"
    /\ edNext = 1
    /\ edCalls = <<>>
    /\ edChanged = FALSE

SpecDriver == SpecDriverInit /\ [][EdNextStep]_vars

-----------------------------------------------------------------------------
(* Properties of earlyDriverTransform *)

Queries(prefix) == \E i \in DOMAIN edModule.funcs : edModule.funcs[i].prefix = prefix

SignaturesAsAsserted == \A i \in DOMAIN edModule.funcs : edModule.funcs[i].sigOk

QueriedButMissing ==
    \/ edModule.md.Flags = <<>> /\ Queries("_AmdContinuationsGetFlags")
    \/ edModule.md.Rtip = <<>> /\ Queries("_AmdGetRtip")

\* C16: a missing stack addressing mode never makes earlyDriverTransform
\* fail: the stack-is-global query is answered from the default mode.  A
\* missing flags (rtip) entry is a fatal error exactly when the module has a
\* function whose name starts with _AmdContinuationsGetFlags (_AmdGetRtip):
\* the transform reports that error only for such a module, never returns
\* for such a module, and with no such function in the module it cannot fail.
MissingMetadataFatalOnlyWhenQueried ==
    /\ edPc = "fatal flags" =>
          edModule.md.Flags = <<>> /\ Queries("_AmdContinuationsGetFlags")
    /\ edPc = "fatal rtip" =>
          edModule.md.Rtip = <<>> /\ Queries("_AmdGetRtip")
    /\ edPc = "done" => ~QueriedButMissing
    /\ edPc = "crashed" => ~SignaturesAsAsserted
    /\ (edPc = "loop" /\ ~QueriedButMissing) =>
          ENABLED (EdVisitOther \/ EdVisitStackIsGlobal \/ EdVisitGetFlags
                   \/ EdVisitGetRtip \/ EdVisitGetUninitialized \/ EdReturn)
    /\ \A i \in DOMAIN edCalls :
          (edModule.funcs[i].prefix = "_AmdContinuationStackIsGlobal" /\ edCalls[i].erased) =>
              (edCalls[i].value.v = 1) <=> IF edModule.md.StackAddrspace = "none"
                                           THEN edModule.md.Default = "Global"
                                           ELSE edModule.md.StackAddrspace = "Global"

MissingMetadataFatalOnlyWhenQueriedWitness ==
    /\ edPc = "done"
    /\ edModule.md.StackAddrspace = "none"
    /\ edModule.md.Flags = <<>>
    /\ edModule.md.Rtip # <<>>
    /\ Queries("_AmdContinuationStackIsGlobal")
    /\ Queries("_AmdGetRtip")

-----------------------------------------------------------------------------
(* Properties of the lowering of the stack operations *)

StoreCalls == {i \in 1..Len(calls) : calls[i].op = "LdsStackStore" /\ lowered[i].done}

InsAt(code, op) == {n \in DOMAIN code : code[n].op = op}

\* C17: the lowering of a push/pop operation emits, in this order, a load of
\* the packed stack pointer from the address operand, exactly one hardware
\* stack instruction on (the loaded pointer, the last-visited value, the
\* data, the size-class immediate), and a store of the updated pointer, which
\* is result 1 of the instruction, to the address that was loaded from; the
\* uses of the operation are replaced by result 0 of the instruction.
PushPopLowering ==
    \A i \in StoreCalls :
        LET code == lowered[i].code
        IN  \E l, h, s \in DOMAIN code :
                /\ l < h /\ h < s
                /\ InsAt(code, "load") = {l}
                /\ InsAt(code, "amdgcn_ds_bvh_stack_rtn") = {h}
                /\ InsAt(code, "store") = {s}
                /\ code[l].x = Arg(1)
                /\ code[h].x = Res(l)
                /\ code[h].y = Arg(2)
                /\ code[h].z = Arg(3)
                /\ code[h].w = Imm(4096)
                /\ code[s].y = Arg(1)
                /\ code[s].x.t = "ins"
                /\ code[code[s].x.v] = Ins("extractvalue", Res(h), Imm(1))
                /\ code[s].x.v < s
                /\ lowered[i].ret.t = "ins"
                /\ code[lowered[i].ret.v] = Ins("extractvalue", Res(h), Imm(0))

PushPopLoweringWitness ==
    /\ rtPc = "done"
    /\ Cardinality(StoreCalls) = 2
    /\ \A i \in StoreCalls : Len(lowered[i].code) = 5

(* The byte addresses in local memory at which the stack array may start: it
   is 4-byte aligned and ends within the first 64 KiB *)
StackAddresses ==
    {a \in {0, 4, Pow2(15), Pow2(16) - 4 * m_stack.len} :
        a >= 0 /\ a + 4 * m_stack.len <= Pow2(16)}

InitEnv(t, addr) == [tid |-> t, stackAddr |-> addr, args |-> <<>>]

(* The 32-bit value that replaces the init call, for thread t *)
PackedStackAddr(i, t, addr) == EvalOperand(lowered[i].code, lowered[i].ret, InitEnv(t, addr))

(* The byte address of the first stack entry of thread t *)
ByteAddress(i, t, addr) == addr + 4 * BaseOffset(i, t)

\* C18: with the stack array 4-byte aligned in the first 64 KiB of local
\* memory, the value of the init lowering has its low 18 bits zero and the
\* bits above them hold the byte address shifted right by 2, which is the
\* byte address shifted left by 16 modulo 2^32; two threads with different
\* base offsets get different values.
InitPacksBase ==
    rtPc = "done" =>
        \A i \in InitCalls : \A addr \in StackAddresses :
            LET W == RoundedWorkgroupSize
                packed == [t \in 0..(W - 1) |-> PackedStackAddr(i, t, addr)]
            IN  /\ \A t \in 0..(W - 1) :
                      /\ packed[t] % Pow2(18) = 0
                      /\ (packed[t] \div Pow2(18)) % Pow2(14) = ByteAddress(i, t, addr) \div 4
                      /\ ByteAddress(i, t, addr) < Pow2(16)
                /\ Cardinality({packed[t] : t \in 0..(W - 1)})
                      = Cardinality({BaseOffset(i, t) : t \in 0..(W - 1)})

\* C18 witness: the last thread of 96, with the array at the end of the 64
\* KiB: the upper bit of the packed value is set.
InitPacksBaseWitness ==
    /\ rtPc = "done" /\ gfxMajor = 11 /\ getWorkgroupSize = 96
    /\ \E i \in InitCalls :
          /\ PackedStackAddr(i, 95, Pow2(16) - 4 * m_stack.len) < 0
          /\ PackedStackAddr(i, 1, 0) = Pow2(18)

AccessCalls ==
    {i \in 1..Len(calls) : calls[i].op \in {"StackRead", "StackWrite"} /\ lowered[i].done}

(* The word of the stack array that the lowering of call i accesses for the
   logical index idx *)
AccessedWord(i, idx) ==
    LET code == lowered[i].code
        gep == code[CHOOSE n \in DOMAIN code : code[n].op = "gep"]
    IN  EvalOperand(code, gep.y, [tid |-> 0, stackAddr |-> 0, args |-> <<idx, 0>>])

(* Logical indices: the ends of [0, 16 * W') and two in-between *)
LogicalIndices == {0, 1, 8 * RoundedWorkgroupSize, 16 * RoundedWorkgroupSize - 1}

\* C19: a read or write with the extra-stack flag accesses the word (logical
\* index + 16 * W'), one without the flag the logical index itself; for every
\* logical index in [0, 16 * W') the extra access lands in [16 * W', 32 * W'),
\* inside the array, which a non-extra access with such an index never
\* reaches.
ExtraStackInUpperHalf ==
    rtPc = "done" =>
        \A i \in AccessCalls : \A idx \in LogicalIndices :
            LET half == 16 * RoundedWorkgroupSize
                word == AccessedWord(i, idx)
            IN  /\ 0 <= word /\ word < m_stack.len
                /\ IF calls[i].extra
                   THEN /\ word = idx + half
                        /\ half <= word /\ word < 2 * half
                        /\ m_stack.len = 2 * half
                   ELSE /\ word = idx
                        /\ word < half

\* C19 witness: 33 threads rounded up to 64; the last logical index of the
\* extra stack is the last word of the array, beside a non-extra write.
ExtraStackInUpperHalfWitness ==
    /\ rtPc = "done" /\ gfxMajor = 11 /\ wgDims = <<11, 3, 1>>
    /\ calls = <<OpCall("StackRead", TRUE), OpCall("StackWrite", FALSE)>>
    /\ AccessedWord(1, 1023) = 2047
    /\ AccessedWord(2, 1023) = 1023

-----------------------------------------------------------------------------
(* Properties of LowerGpuRt::run *)

StackOpCalls ==
    {i \in 1..Len(calls) : calls[i].op \in {"StackRead", "StackWrite", "LdsStackInit"}}

\* C21: the stack global does not exist before the run; once createGlobalStack
\* has returned it exists if and only if the module holds a stack read, a
\* stack write or a stack init, so every lowered read, write or init finds it;
\* and once it exists it is never created again or changed.
StackCreatedOnceIfNeeded ==
    /\ [](/\ rtPc = "start" => ~m_stack.created
          /\ rtPc # "start" => (m_stack.created <=> StackOpCalls # {})
          /\ \A i \in StackOpCalls : lowered[i].done => m_stack.created)
    /\ [][m_stack.created => m_stack' = m_stack]_vars

\* C21 witness: the run has returned on a module of a size query and a stack
\* init; the init was lowered against the stack created for it alone.
StackCreatedOnceIfNeededWitness ==
    /\ rtPc = "done"
    /\ calls = <<OpCall("GetStackSize", FALSE), OpCall("LdsStackInit", FALSE)>>
    /\ lowered[2].done
    /\ m_stack.created

\* C27 as stated: the run reports that all analyses are preserved exactly
\* when it lowered no call and created no stack global.
PreservedIffUnchanged ==
    rtPc = "done" =>
        (preserved = "all" <=> (Len(m_callsToLower) = 0 /\ ~m_stack.created))

(* The values of the three stack queries of a module, for thread t *)
QueryCall(op) == CHOOSE i \in 1..Len(calls) : calls[i].op = op
QueryValue(op, t) ==
    LET i == QueryCall(op)
    IN  EvalOperand(lowered[i].code, lowered[i].ret, ThreadEnv(t))

\* C29: base = t, stride = W' and size = 16 * W', whether or not the module
\* uses the extra stack; for t in [0, W') and k in [0, 16) the indices
\* base + k * stride are below the size, which is not above the length of
\* the stack array when there is one, and distinct (t, k) give distinct
\* indices.
StackQueriesConsistent ==
    rtPc = "done" =>
        LET W == RoundedWorkgroupSize
            size == QueryValue("GetStackSize", 0)
            stride == QueryValue("GetStackStride", 0)
            index == [t \in 0..(W - 1) |->
                        [k \in 0..15 |-> QueryValue("GetStackBase", t) + k * stride]]
            all == {index[t][k] : t \in 0..(W - 1), k \in 0..15}
        IN  /\ stride = W
            /\ size = 16 * W
            /\ \A t \in 0..(W - 1) :
                  /\ QueryValue("GetStackBase", t) = t
                  /\ QueryValue("GetStackSize", t) = size
                  /\ QueryValue("GetStackStride", t) = stride
            /\ \A a \in all : 0 <= a /\ a < size
            /\ Cardinality(all) = 16 * W
            /\ m_stack.created => size <= m_stack.len

\* C29 witness: 40 threads rounded up to 64 beside a write to the extra
\* stack: the size stays 1024 in an array of 2048 words.
StackQueriesConsistentWitness ==
    /\ rtPc = "done" /\ gfxMajor = 11 /\ ~isGraphics /\ RawWorkgroupSize = 40
    /\ Len(calls) = 4 /\ calls[1] = OpCall("StackWrite", TRUE)
    /\ QueryValue("GetStackSize", 0) = 1024
    /\ QueryValue("GetStackStride", 0) = 64
    /\ QueryValue("GetStackBase", 63) = 63
    /\ m_stack.len = 2048

(* The operations that the module called *)
CalledOps == {calls[i].op : i \in 1..Len(calls)}

\* C30 as stated: after the run no call of a handled operation and no
\* declaration of one remains in the module.
NoCallNoDeclarationRemains ==
    rtPc = "done" => liveCalls = {} /\ liveFuncs = {}

\* C30, amended: after the run no call of a handled operation remains and
\* the declaration of every operation that was called is removed, while a
\* declaration that nothing called stays; a call is erased only after its
\* uses were replaced by the lowered value, every call is handed over for
\* erasure once, and a declaration is erased only after all its calls.
CallsAndCalledDeclarationsErased ==
    /\ [](/\ rtPc = "done" =>
                /\ liveCalls = {}
                /\ liveFuncs \cap CalledOps = {}
                /\ Len(m_callsToLower) = Len(calls)
          /\ \A i \in 1..Len(calls) : i \notin liveCalls => lowered[i].done
          /\ \A i, j \in 1..Len(m_callsToLower) :
                m_callsToLower[i] = m_callsToLower[j] => i = j
          /\ \A i \in liveCalls : calls[i].op \in liveFuncs)
    /\ [][/\ liveFuncs' \ CalledOps = liveFuncs \ CalledOps
          /\ liveCalls' \subseteq liveCalls
          /\ liveFuncs' \subseteq liveFuncs]_vars

\* C30 witness: two calls of one operation were erased and then their
\* declaration, beside a declaration that nothing calls.
CallsAndCalledDeclarationsErasedWitness ==
    /\ rtPc = "done"
    /\ calls = <<OpCall("GetStackBase", FALSE), OpCall("GetStackBase", FALSE)>>
    /\ liveCalls = {}
    /\ liveFuncs = {"LdsStackStore"}
====
